---- MODULE Spec2Model ----
(***************************************************************************)
(* Scheduling and execution engine of claude-code-runner-python:           *)
(* the cron parser (app/scheduler/cron.py), the JSON task store            *)
(* (app/scheduler/storage.py), the executor (app/scheduler/executor.py),   *)
(* the scheduler loop (app/scheduler/scheduler.py) and the queue endpoints *)
(* (app/routers/scheduler.py).                                             *)
(*                                                                         *)
(* Time is counted in whole seconds since 2024-01-01T00:00:00 (a Monday).  *)
(***************************************************************************)
EXTENDS Integers, Sequences, FiniteSets, TLC

\* ------------------------------------------------------------------ bounds
\* Largest start moment (seconds) the next-fire search is tried from.
MaxFrom == 125
\* Number of steps the wall clock takes in the scheduler model.
MaxSteps == 2
\* Number of task ids that can be created.
MaxTasks == 2
\* Number of scheduler loop coroutines that can be created by start().
MaxLoops == 2
\* Number of times one ScheduledTask is materialised.
MaxRuns == 2
\* Number of ScheduledTask definitions.
MaxScheduled == 1
\* Number of event streams that are open side by side.
MaxStreams == 3
\* Number of answers posted to /api/task/answer.
MaxAnswers == 2
\* Number of callers of the storage that run side by side.
MaxCallers == 3
\* Number of ClaudeCodeClients alive at once.
MaxClients == 6
\* Number of question ids handed to one ConcurrencyManager.
MaxQuestions == 6
\* Number of max_age_seconds periods the clock of the event loop runs through.
MaxAges == 3

\* --------------------------------------------------------------- constants
\* Optional[T]: None, or Some(x) where the value is a number; a timestamp text
\* (six numbers) stands for itself.
None == <<>>

Some(x) == <<x>>

\* An absent task or loop reference.
NoId == 0

\* app/scheduler/config.py
POLL_INTERVAL == 10
MAX_RETRIES == 2
MAX_HISTORY == 1000
MIN_TIMEOUT == 1000
MAX_TIMEOUT == 3600000
\* Scheduler.stop: asyncio.wait_for(self._task, timeout=5.0)
STOP_WAIT == 5
\* InputValidator.max_input_length
max_input_length == 1000
\* ConcurrencyManager.max_concurrent_questions
max_concurrent_questions == 5
\* SessionManager.cleanup_old_sessions: the default of max_age_seconds
max_age_seconds == 14400
\* get_task_detail: the page size it reads the histories with
detail_limit == 100
\* get_task_detail: the last page it reads, range(1, 100)
detail_last_page == 99

\* The wall clock at the start (half a minute past the epoch), the seconds it
\* moves on in one step, and where it stops.
StartNow == 3 * POLL_INTERVAL

TimeStep == POLL_INTERVAL

MaxNow == StartNow + MaxSteps * TimeStep

\* The timeout_seconds of the questions the sample runs ask.
QuestionTimeout == TimeStep

\* ------------------------------------------------------- datetime (stdlib)
\* The epoch of the model's clock.
EpochYear == 2024

IsLeap(y) == (y % 4 = 0 /\ y % 100 # 0) \/ y % 400 = 0

DaysInYear(y) == IF IsLeap(y) THEN 366 ELSE 365

\* CronParser._get_last_day_of_month
_get_last_day_of_month(year, month) ==
    CASE month \in {1, 3, 5, 7, 8, 10, 12} -> 31
      [] month \in {4, 6, 9, 11} -> 30
      [] OTHER -> IF IsLeap(year) THEN 29 ELSE 28

\* The date <<year, month, day>> that lies days after the first of month m.
RECURSIVE MonthFrom(_, _, _)
MonthFrom(y, m, days) ==
    IF days < _get_last_day_of_month(y, m) THEN <<y, m, days + 1>>
    ELSE MonthFrom(y, m + 1, days - _get_last_day_of_month(y, m))

\* The date that lies days after the first of January of year y.
RECURSIVE YearFrom(_, _)
YearFrom(y, days) ==
    IF days < DaysInYear(y) THEN MonthFrom(y, 1, days)
    ELSE YearFrom(y + 1, days - DaysInYear(y))

\* datetime.weekday(): Monday = 0 .. Sunday = 6
weekday(t) == (t \div 86400) % 7

\* A datetime from its date and its moment.
DateTimeOn(date, t) ==
    [year |-> date[1], month |-> date[2], day |-> date[3],
     hour |-> (t \div 3600) % 24, minute |-> (t \div 60) % 60, second |-> t % 60,
     weekday |-> weekday(t)]

\* datetime: the calendar fields of the moment t seconds after the epoch
DateTime(t) == DateTimeOn(YearFrom(EpochYear, t \div 86400), t)

RECURSIVE DaysBeforeYear(_)
DaysBeforeYear(y) == IF y = EpochYear THEN 0 ELSE DaysBeforeYear(y - 1) + DaysInYear(y - 1)

RECURSIVE DaysBeforeMonth(_, _)
DaysBeforeMonth(y, m) ==
    IF m = 1 THEN 0 ELSE DaysBeforeMonth(y, m - 1) + _get_last_day_of_month(y, m - 1)

\* The text "YYYY-MM-DDTHH:MM:SS" of a datetime, kept as its six numbers.
IsoText(dt) == <<dt.year, dt.month, dt.day, dt.hour, dt.minute, dt.second>>

\* datetime.isoformat()
isoformat(t) == IsoText(DateTime(t))

\* datetime.fromisoformat(): the moment a timestamp text denotes
fromisoformat(s) ==
    (DaysBeforeYear(s[1]) + DaysBeforeMonth(s[1], s[2]) + (s[3] - 1)) * 86400
        + s[4] * 3600 + s[5] * 60 + s[6]

\* datetime.replace(second=0, microsecond=0)
FloorMinute(t) == t - (t % 60)

\* ------------------------------------------------------------------- cron
\* A cron expression is the list of its whitespace-separated fields; a field
\* is its text split at its punctuation:
\*   [k |-> "star"]                        *
\*   [k |-> "step", n |-> 2]               */2
\*   [k |-> "range", lo |-> a, hi |-> b]   a-b
\*   [k |-> "list", items |-> <<a, b>>]    a,b
\*   [k |-> "val", v |-> a]                a
\* and a value a is a numeral [num |-> 7] or a name [name |-> "sun"].
RANGES ==
    [second |-> <<0, 59>>, minute |-> <<0, 59>>, hour |-> <<0, 23>>,
     day |-> <<1, 31>>, month |-> <<1, 12>>, weekday |-> <<0, 6>>]

MONTH_ALIASES ==
    [jan |-> 1, feb |-> 2, mar |-> 3, apr |-> 4, may |-> 5, jun |-> 6,
     jul |-> 7, aug |-> 8, sep |-> 9, oct |-> 10, nov |-> 11, dec |-> 12]

WEEKDAY_ALIASES ==
    [sun |-> 0, mon |-> 1, tue |-> 2, wed |-> 3, thu |-> 4, fri |-> 5, sat |-> 6]

\* The value a parse step raises ValueError with.
ValueError == [error |-> "ValueError"]

Num(n) == [num |-> n]
Name(s) == [name |-> s]

\* CronParser._parse_value: whether it returns (TRUE) or raises ValueError
ValueParses(value, field_type) ==
    "name" \in DOMAIN value =>
        \/ field_type = "month" /\ value.name \in DOMAIN MONTH_ALIASES
        \/ field_type = "weekday" /\ value.name \in DOMAIN WEEKDAY_ALIASES

\* CronParser._parse_value: the number it returns
_parse_value(value, field_type) ==
    IF "name" \in DOMAIN value
    THEN IF field_type = "month" THEN MONTH_ALIASES[value.name]
         ELSE WEEKDAY_ALIASES[value.name]
    ELSE IF field_type = "weekday" /\ value.num = 7 THEN 0 ELSE value.num

\* range(start, stop, step) as a list
RECURSIVE PyRange(_, _, _)
PyRange(start, stop, step) ==
    IF start >= stop THEN <<>> ELSE <<start>> \o PyRange(start + step, stop, step)

SeqToSet(s) == {s[i] : i \in DOMAIN s}

\* CronField(field_type=..., values=..., ...)
CronField(field_type, values, has_wildcard, has_step, step_value, is_range, range_start, range_end, is_list, list_values) ==
    [field_type |-> field_type, values |-> values, has_wildcard |-> has_wildcard,
     has_step |-> has_step, step_value |-> step_value, is_range |-> is_range,
     range_start |-> range_start, range_end |-> range_end, is_list |-> is_list,
     list_values |-> list_values, is_last_day |-> FALSE, is_weekday |-> FALSE]

\* CronParser._parse_field: a CronField, or ValueError
_parse_field(field, field_type) ==
    LET min_val == RANGES[field_type][1]
        max_val == RANGES[field_type][2]
    IN  CASE field.k = "star" ->
               CronField(field_type, PyRange(min_val, max_val + 1, 1), TRUE, FALSE, 1,
                         FALSE, min_val, max_val, FALSE, <<>>)
          [] field.k = "step" ->
               IF field.n = 0 THEN ValueError
               ELSE CronField(field_type, PyRange(min_val, max_val + 1, field.n), FALSE,
                              TRUE, field.n, FALSE, min_val, max_val, FALSE, <<>>)
          [] field.k = "list" ->
               LET vals == [i \in DOMAIN field.items |->
                              _parse_value(field.items[i], field_type)]
               IN  IF \E i \in DOMAIN field.items :
                          ~ValueParses(field.items[i], field_type)
                   THEN ValueError
                   ELSE CronField(field_type, vals, FALSE, FALSE, 1, FALSE, 0, 0, TRUE, vals)
          [] field.k = "range" ->
               LET start_val == _parse_value(field.lo, field_type)
                   end_val == _parse_value(field.hi, field_type)
               IN  IF ~ValueParses(field.lo, field_type) \/ ~ValueParses(field.hi, field_type)
                   THEN ValueError
                   ELSE CronField(field_type, PyRange(start_val, end_val + 1, 1), FALSE,
                                  FALSE, 1, TRUE, start_val, end_val, FALSE, <<>>)
          [] OTHER ->
               LET value == _parse_value(field.v, field_type)
               IN  IF ~ValueParses(field.v, field_type) THEN ValueError
                   ELSE CronField(field_type, <<value>>, FALSE, FALSE, 1, FALSE,
                                  value, value, FALSE, <<value>>)

\* CronParser.parse (with _parse_standard_format and _parse_extended_format):
\* a CronExpression, or ValueError
parse_fields(cron) ==
    LET names == IF Len(cron) = 6
                 THEN <<"second", "minute", "hour", "day", "month", "weekday">>
                 ELSE <<"minute", "hour", "day", "month", "weekday">>
        fields == [i \in DOMAIN names |-> _parse_field(cron[i], names[i])]
    IN  IF Len(cron) \notin {5, 6} THEN ValueError
        ELSE IF \E i \in DOMAIN fields : fields[i] = ValueError THEN ValueError
        ELSE [is_extended |-> Len(cron) = 6,
              fields |-> [i \in DOMAIN names |-> fields[i]]]

\* The expressions the model is exercised with.
Star == [k |-> "star"]
Val(n) == [k |-> "val", v |-> Num(n)]
Step(n) == [k |-> "step", n |-> n]
List(items) == [k |-> "list", items |-> items]
Range(lo, hi) == [k |-> "range", lo |-> lo, hi |-> hi]

CronSamples ==
    << <<Star, Star, Star, Star, Star>>,                      \* * * * * *
       <<Step(2), Star, Star, Star, Star>>,                   \* */2 * * * *
       <<Val(1), Star, Star, Star, Star>>,                    \* 1 * * * *
       <<List(<<Num(0), Num(2)>>), Star, Star, Star, Star>>,  \* 0,2 * * * *
       <<Range(Num(1), Num(2)), Star, Star, Star, Star>>,     \* 1-2 * * * *
       <<Val(2), Val(0), Val(1), [k |-> "val", v |-> Name("jan")], Val(0)>>,
                                                              \* 2 0 1 jan 0
       <<Step(30), Star, Star, Star, Star, Star>>,            \* */30 * * * * *
       <<Val(5), Star, Star, Star, Star, Star>>,              \* 5 * * * * *
       <<Step(0), Star, Star, Star, Star>>,                   \* */0 * * * *
       <<Star, Star, Star, Star>>,                            \* four fields
       <<Range(Num(0), Num(2)), Val(0), Star, Star, Val(0)>>,  \* 0-2 0 * * 0
       <<Range(Num(0), Num(2)), Val(0), Star, Star, Val(7)>>,  \* 0-2 0 * * 7
       <<Range(Num(0), Num(2)), Val(0), Star, Star, [k |-> "val", v |-> Name("sun")]>>,
                                                              \* 0-2 0 * * sun
       <<Val(0), Val(0), Val(8), Star, Star>>,                \* 0 0 8 * *
       <<Val(0), Val(0), Val(0), Val(8), Star, Star>> >>      \* 0 0 0 8 * *

\* The samples whose day-of-week field names Sunday as 0, as 7 and as sun:
\* the expression of @weekly (0 0 * * 0) with the minutes 0-2, which are the
\* minutes the start moments of the model lie in.
WeeklyCrons == {11, 12, 13}

\* CronParser._cache: the expressions parsed before
_cache == [k \in DOMAIN CronSamples |-> parse_fields(CronSamples[k])]

\* CronParser.parse
parse(cron) ==
    IF \E k \in DOMAIN CronSamples : CronSamples[k] = cron
    THEN _cache[CHOOSE k \in DOMAIN CronSamples : CronSamples[k] = cron]
    ELSE parse_fields(cron)

\* The field of a CronExpression, by its name.
FieldOf(expression, field_type) ==
    LET off == IF expression.is_extended THEN 0 ELSE 1
    IN  CASE field_type = "second" -> expression.fields[1]
          [] field_type = "minute" -> expression.fields[2 - off]
          [] field_type = "hour" -> expression.fields[3 - off]
          [] field_type = "day" -> expression.fields[4 - off]
          [] field_type = "month" -> expression.fields[5 - off]
          [] OTHER -> expression.fields[6 - off]

\* CronParser._field_matches
_field_matches(field, value, dt) ==
    IF field.is_list
    THEN \E i \in DOMAIN field.list_values : value = field.list_values[i]
    ELSE value \in SeqToSet(field.values)

\* CronParser._matches
_matches(expression, dt) ==
    /\ expression.is_extended \/ dt.second = 0
    /\ expression.is_extended =>
           _field_matches(FieldOf(expression, "second"), dt.second, dt)
    /\ _field_matches(FieldOf(expression, "minute"), dt.minute, dt)
    /\ _field_matches(FieldOf(expression, "hour"), dt.hour, dt)
    /\ _field_matches(FieldOf(expression, "day"), dt.day, dt)
    /\ _field_matches(FieldOf(expression, "month"), dt.month, dt)
    /\ _field_matches(FieldOf(expression, "weekday"), dt.weekday, dt)

\* calculate_next_run: max_iterations = 366 * 24 * 60
max_iterations == 366 * 24 * 60

\* _matches, the fields of the date only: no moment of a day matches when
\* its date does not.
DateMatches(expression, dt) ==
    /\ _field_matches(FieldOf(expression, "day"), dt.day, dt)
    /\ _field_matches(FieldOf(expression, "month"), dt.month, dt)
    /\ _field_matches(FieldOf(expression, "weekday"), dt.weekday, dt)

\* The seconds from current, which does not match, to the next moment the
\* loop visits that is not ruled out by its date, its hour or its minute.
PassOver(expression, current, dt) ==
    IF ~DateMatches(expression, dt) THEN 86400 - (current % 86400)
    ELSE IF ~_field_matches(FieldOf(expression, "hour"), dt.hour, dt)
    THEN 3600 - (current % 3600)
    ELSE IF ~_field_matches(FieldOf(expression, "minute"), dt.minute, dt)
    THEN 60 - (current % 60)
    ELSE IF expression.is_extended THEN 1 ELSE 60

\* The for loop of calculate_next_run, from its i-th iteration on. The loop
\* adds one second (six fields) or one minute (five fields) per iteration;
\* the iterations over a day, an hour or a minute that cannot match are
\* counted and passed over in one step.
RECURSIVE NextRunLoop(_, _, _, _)
NextRunLoop(expression, current, i, from_time) ==
    IF i >= max_iterations THEN None
    ELSE IF _matches(expression, DateTime(current)) THEN Some(current)
    ELSE LET seconds == PassOver(expression, current, DateTime(current))
         IN  IF DateTime(current + seconds).year > DateTime(from_time).year + 1 THEN None
             ELSE NextRunLoop(expression, current + seconds,
                              i + (seconds \div (IF expression.is_extended THEN 1 ELSE 60)),
                              from_time)

\* calculate_next_run once the expression is parsed
NextRunOf(expression, from_time) ==
    IF expression = ValueError THEN None
    ELSE NextRunLoop(expression,
                     IF expression.is_extended THEN from_time ELSE FloorMinute(from_time),
                     0, from_time)

\* CronParser.calculate_next_run
calculate_next_run(cron, from_time) == NextRunOf(parse(cron), from_time)

\* is_due(next_run), evaluated at wall clock now
is_due(next_run, now) ==
    IF next_run = None THEN FALSE ELSE now >= fromisoformat(next_run)

\* ------------------------------------------------------------------ state
VARIABLES
    queue,        \* queue.json: the list of queued Task snapshots
    running,      \* running.json
    completed,    \* completed.json, newest first
    failed,       \* failed.json, newest first
    scheduled,    \* scheduled.json: the list of ScheduledTask snapshots
    executor,     \* TaskExecutor: _current_task, _is_executing, _error_collector
    sched,        \* Scheduler: _status, _task, _stop_event
    loops,        \* the _run_loop coroutines created by start()
    stopper,      \* the stop() call that is awaiting the loop, if any
    now,          \* the wall clock
    locked,       \* the files whose .lock sentinel is held by someone else
    next_id,      \* the next uuid
    deleted,      \* history: the task ids removed through the API
    transitions,  \* history: the status changes the last step made, as <<from, to>>
    attempts,     \* history: per task id, its agent runs so far, and whether each
                  \*          of them ended with an error of a retryable class
    cronq,        \* the next-fire query under evaluation
    client,       \* ClaudeCodeClient: the fields of the question/answer exchange
    sessions,     \* SessionManager._sessions: session_id -> SessionState
    stream,       \* the position of run_stream under event_generator
    sse,          \* the events sent on the event stream, in order
    injected,     \* the tool results handed back to the agent, in order
    replies,      \* history: the replies of POST /api/task/answer, in order
    disk,         \* the collection files as concurrent callers of the storage see them
    calls,        \* the storage calls in progress, per caller
    returned,     \* history: what the last run-now call returned
    managers,     \* the ConcurrencyManager of each ClaudeCodeClient
    asking,       \* where each client's run_stream is with its question
    loop_time,    \* asyncio.get_event_loop().time()
    registry,     \* SessionManager._sessions with the client of each entry
    streams,      \* the event streams that are open side by side
    lookup        \* the task-detail request under evaluation

sessionVars == <<client, sessions, stream, sse, injected, replies>>

sideVars == <<disk, calls, returned, managers, asking, loop_time, registry, streams, lookup>>

vars ==
    <<queue, running, completed, failed, scheduled, executor, sched, loops, stopper,
      now, locked, next_id, deleted, transitions, attempts, cronq, sessionVars, sideVars>>

storeVars == <<queue, running, completed, failed, scheduled>>

schedulerVars ==
    <<queue, running, completed, failed, scheduled, executor, sched, loops, stopper,
      now, locked, next_id, deleted, transitions, attempts>>

TaskIds == 1..MaxTasks
LoopIds == 1..MaxLoops

\* ------------------------------------------------------------------ models
\* Task(id=..., prompt=..., timeout=...) with the dataclass defaults;
\* result_errors is the length of result["errors"] once a result holds one
Task(id, prompt, timeout, is_scheduled, scheduled_id) ==
    [id |-> id, prompt |-> prompt, timeout |-> timeout, started_at |-> None,
     finished_at |-> None, retries |-> 0, status |-> "pending",
     scheduled |-> is_scheduled, scheduled_id |-> scheduled_id, result_errors |-> None,
     allowed_tools |-> None]

\* ScheduledTask(id=..., cron=..., enabled=..., next_run=...)
ScheduledTask(id, prompt, cron, timeout, enabled, next_run) ==
    [id |-> id, prompt |-> prompt, cron |-> cron, timeout |-> timeout,
     enabled |-> enabled, last_run |-> None, next_run |-> next_run, run_count |-> 0]

\* The placeholder of a coroutine that holds no task.
NoTask == Task(NoId, <<>>, 0, FALSE, NoId)

\* str.strip() on a text given as its list of characters
RECURSIVE lstrip(_)
lstrip(s) == IF s # <<>> /\ Head(s) = " " THEN lstrip(Tail(s)) ELSE s

RECURSIVE rstrip(_)
rstrip(s) == IF s # <<>> /\ s[Len(s)] = " " THEN rstrip(SubSeq(s, 1, Len(s) - 1)) ELSE s

strip(s) == rstrip(lstrip(s))

\* ----------------------------------------------------------------- storage
\* FileLock.__enter__ raises RuntimeError when the sentinel cannot be created.
LockFails(file) == file \in locked

\* An exception: its class and the classification keywords its message holds.
Error(type, words) == [type |-> type, words |-> words]

LockError == Error("RuntimeError", {})

\* QueueStorage.add put a task at the head of the queue (the mutation that
\* the first-in first-out property must exclude).
storage_add_first(tasks, task) == <<task>> \o tasks

\* QueueStorage.add / RunningStorage.add
storage_add(tasks, task) == Append(tasks, task)

\* RunningStorage.remove: the list without the first entry of that id
RECURSIVE storage_remove(_, _)
storage_remove(tasks, task_id) ==
    IF tasks = <<>> THEN <<>>
    ELSE IF Head(tasks).id = task_id THEN Tail(tasks)
    ELSE <<Head(tasks)>> \o storage_remove(Tail(tasks), task_id)

\* QueueStorage.remove keeps every entry with another id
queue_remove(tasks, task_id) == SelectSeq(tasks, LAMBDA t : t.id # task_id)

\* The list cut to the newest MAX_HISTORY entries.
Truncated(tasks) ==
    IF Len(tasks) > MAX_HISTORY THEN SubSeq(tasks, 1, MAX_HISTORY) ELSE tasks

\* HistoryStorage._add
history_add(tasks, task) == Truncated(<<task>> \o tasks)

\* The first index of tasks that holds the id.
IndexOf(tasks, id) ==
    CHOOSE j \in DOMAIN tasks : tasks[j].id = id /\ \A k \in 1..(j - 1) : tasks[k].id # id

\* ScheduledStorage.save
scheduled_save(tasks, task) ==
    IF \E i \in DOMAIN tasks : tasks[i].id = task.id
    THEN [tasks EXCEPT ![IndexOf(tasks, task.id)] = task]
    ELSE Append(tasks, task)

Ids(tasks) == {tasks[i].id : i \in DOMAIN tasks}

\* ---------------------------------------------------------------- executor
RETRYABLE_ERRORS == {"transient", "timeout", "resource"}

resource_keywords == {"rate limit", "connection", "network", "unavailable"}
validation_keywords == {"invalid", "validation", "not found", "permission"}

\* classify_error
classify_error(error) ==
    IF error.type = "TimeoutError" \/ "timeout" \in error.words THEN "timeout"
    ELSE IF error.words \cap resource_keywords # {} THEN "resource"
    ELSE IF error.words \cap validation_keywords # {} THEN "validation"
    ELSE "transient"

\* should_retry without its test of the error class
should_retry_any_class(task, error_type) == task.retries < MAX_RETRIES

\* should_retry with the limit compared by > in place of >=
should_retry_past_limit(task, error_type) ==
    IF task.retries > MAX_RETRIES THEN FALSE ELSE error_type \in RETRYABLE_ERRORS

\* should_retry
should_retry(task, error_type) ==
    IF task.retries >= MAX_RETRIES THEN FALSE ELSE error_type \in RETRYABLE_ERRORS

VALID_TRANSITIONS ==
    [pending |-> {"running", "cancelled"},
     running |-> {"completed", "failed", "pending", "cancelled"},
     failed |-> {"pending", "cancelled"},
     completed |-> {},
     cancelled |-> {}]

\* is_executing reading a flag that is never set
is_executing_never_set == FALSE

\* TaskExecutor.is_executing
is_executing == executor.is_executing

\* TaskExecutor.get_current_task: the id of the task, NoId for None
get_current_task == executor.current_task

\* TaskExecutor._validate_task
_validate_task(task) ==
    IF task.prompt = <<>> \/ strip(task.prompt) = <<>> THEN FALSE
    ELSE IF task.timeout < 1000 \/ task.timeout > 3600000 THEN FALSE
    ELSE TRUE

\* The memory and files one coroutine step works on: the Task object in its
\* hand, the collections, the executor, the exception in flight (exc), and
\* whether the step ends suspended in the agent run (awaiting).
Ctx(task) ==
    [task |-> task, queue |-> queue, running |-> running, completed |-> completed,
     failed |-> failed, executor |-> executor, transitions |-> {}, exc |-> None,
     awaiting |-> FALSE]

\* task.status = status
SetStatus(c, status) ==
    [c EXCEPT !.task.status = status,
              !.transitions = IF c.task.status = status THEN @
                              ELSE @ \cup {<<c.task.status, status>>}]

Raise(c, error) == [c EXCEPT !.exc = Some(error)]


\* self.storage.running.add(task)
running_add(c) ==
    IF LockFails("running") THEN Raise(c, LockError)
    ELSE [c EXCEPT !.running = storage_add(@, c.task)]

\* self.storage.running.remove(task.id)
running_remove(c) ==
    IF LockFails("running") THEN Raise(c, LockError)
    ELSE [c EXCEPT !.running = storage_remove(@, c.task.id)]

\* self.storage.queue.add(task)
queue_add(c) ==
    IF LockFails("queue") THEN Raise(c, LockError)
    ELSE [c EXCEPT !.queue = storage_add(@, c.task)]

\* self.storage.history.add_completed(task)
add_completed(c) == [c EXCEPT !.completed = history_add(@, c.task)]

\* self.storage.history.add_failed(task)
add_failed(c) == [c EXCEPT !.failed = history_add(@, c.task)]

\* self._error_collector.add(error, ...)
collector_add(c) == [c EXCEPT !.executor.errors = @ + 1]

\* A statement that follows a storage call is skipped when the call raised.
then_add_completed(c) == IF c.exc # None THEN c ELSE add_completed(c)

then_add_failed(c) == IF c.exc # None THEN c ELSE add_failed(c)

then_queue_add(c) == IF c.exc # None THEN c ELSE queue_add(c)

\* TaskExecutor._handle_success
_handle_success(c) ==
    then_add_completed(
        running_remove(
            SetStatus([c EXCEPT !.task.finished_at = isoformat(now)], "completed")))

\* TaskExecutor._handle_retry
_handle_retry(c, error) ==
    IF ~should_retry(c.task, classify_error(error))
    THEN then_add_failed(
             running_remove(
                 SetStatus([c EXCEPT !.task.finished_at = isoformat(now),
                                     !.task.result_errors = Some(c.executor.errors)],
                           "failed")))
    ELSE then_queue_add(
             running_remove(
                 [SetStatus([c EXCEPT !.task.retries = @ + 1], "pending")
                     EXCEPT !.task.started_at = None, !.task.finished_at = None]))

\* TaskExecutor._handle_failure
_handle_failure(c, words) == _handle_retry(c, Error("Exception", words))

\* TaskExecutor._handle_timeout
_handle_timeout(c) ==
    _handle_retry(collector_add(c), Error("TimeoutError", {"timeout"}))

\* TaskExecutor._handle_error
_handle_error(c, error) == _handle_retry(collector_add(c), error)

\* The ways one agent run (_execute_with_client under asyncio.wait_for) ends:
\* a result with success, a result without (its message holding the keywords
\* words), an exception, or the deadline.
OutcomeSamples ==
    {[kind |-> "success", type |-> "", words |-> {}],
     [kind |-> "failure", type |-> "Exception", words |-> {"rate limit"}],
     [kind |-> "failure", type |-> "Exception", words |-> {"not found"}],
     [kind |-> "raise", type |-> "RuntimeError", words |-> {}]}

TimeoutOutcome == [kind |-> "timeout", type |-> "TimeoutError", words |-> {"timeout"}]

\* The class of an outcome: "success", or the class of the error it carries.
OutcomeClass(o) ==
    IF o.kind = "success" THEN "success" ELSE classify_error(Error(o.type, o.words))

\* TaskExecutor.execute reaches its await.
Await(c) == [c EXCEPT !.awaiting = TRUE]

then_await(c) == IF c.exc # None THEN c ELSE Await(c)

\* TaskExecutor.execute up to its await: validation, the executing flags, the
\* RUNNING mark and the insert into running. c.task is the task handed over.
execute_begin(c) ==
    IF ~_validate_task(c.task) THEN c
    ELSE then_await(
             running_add(
                 [SetStatus([c EXCEPT !.executor = [current_task |-> c.task.id,
                                                    is_executing |-> TRUE,
                                                    errors |-> 0]],
                            "running")
                     EXCEPT !.task.started_at = isoformat(now)]))

\* TaskExecutor.execute: except Exception as e, for an exception that a
\* statement of the try body raised
ExceptException(c) ==
    IF c.exc = None THEN c ELSE _handle_error([c EXCEPT !.exc = None], c.exc[1])

\* TaskExecutor.execute: its finally clause
Finally(c) ==
    [c EXCEPT !.executor.is_executing = FALSE, !.executor.current_task = NoId]

\* TaskExecutor.execute from the end of the agent run o: the try body, its
\* handlers and its finally clause. An exception of the agent run has been
\* added to the collector by _execute_with_client.
execute_end(c, o) ==
    Finally(CASE o.kind = "success" -> ExceptException(_handle_success(c))
              [] o.kind = "failure" -> ExceptException(_handle_failure(c, o.words))
              [] o.kind = "timeout" -> _handle_timeout(c)
              [] OTHER -> _handle_error(collector_add(c), Error(o.type, o.words)))

\* Scheduler._execute_task: its except clause, run when execute raised.
_execute_task_except(c) ==
    IF c.exc = None THEN c
    ELSE IF c.task.status # "running" THEN [c EXCEPT !.exc = None]
    ELSE then_add_failed(
             running_remove(
                 [SetStatus([c EXCEPT !.exc = None], "failed")
                     EXCEPT !.task.finished_at = isoformat(now)]))

\* --------------------------------------------------------------- scheduler
\* What one pass of _check_scheduled_tasks works on: the queue, the scheduled
\* file and the next uuid.
Files == [queue |-> queue, scheduled |-> scheduled, next_id |-> next_id]

\* Scheduler._trigger_scheduled_task for the entry s, next_run being the result
\* of calculate_next_run
Triggered(st, s, next_run) ==
    IF LockFails("queue") THEN [st EXCEPT !.next_id = @ + 1]
    ELSE [st EXCEPT
              !.next_id = @ + 1,
              !.queue = storage_add(@, Task(st.next_id, s.prompt, s.timeout, TRUE, s.id)),
              !.scheduled = scheduled_save(@,
                  [s EXCEPT !.last_run = isoformat(now),
                            !.run_count = @ + 1,
                            !.next_run = IF next_run # None
                                         THEN isoformat(next_run[1]) ELSE @])]

\* Scheduler._trigger_scheduled_task
_trigger_scheduled_task(st, s) == Triggered(st, s, calculate_next_run(s.cron, now))

\* Scheduler._check_scheduled_tasks over the snapshot that get_enabled()
\* returned, from its i-th entry on.
RECURSIVE _check_scheduled_tasks(_, _, _)
_check_scheduled_tasks(st, snapshot, i) ==
    IF i > Len(snapshot) THEN st
    ELSE _check_scheduled_tasks(
             IF snapshot[i].enabled /\ is_due(snapshot[i].next_run, now)
             THEN _trigger_scheduled_task(st, snapshot[i]) ELSE st,
             snapshot, i + 1)

\* The entries of scheduled.json that a pass made now would materialise.
Due == {i \in DOMAIN scheduled : scheduled[i].enabled /\ is_due(scheduled[i].next_run, now)}

\* Scheduler._run_loop with its except clause left out: an exception of the
\* pass ends the loop (the mutation that the survival of the loop excludes).
_run_loop_raises(c) == IF c.exc # None THEN "ended" ELSE "sleeping"

\* Scheduler._run_loop: where the loop is after a pass that ended in c.
\* except Exception logs what the pass raised and the loop goes on to its
\* wait for the stop signal.
_run_loop_except(c) == "sleeping"

\* Scheduler._process_queue with QueueStorage.pop and Scheduler._execute_task,
\* up to the first suspension; files is what _check_scheduled_tasks left.
_process_queue(files) ==
    IF is_executing THEN [Ctx(NoTask) EXCEPT !.queue = files.queue]
    ELSE IF LockFails("queue") THEN Raise([Ctx(NoTask) EXCEPT !.queue = files.queue], LockError)
    ELSE IF files.queue = <<>> THEN [Ctx(NoTask) EXCEPT !.queue = files.queue]
    ELSE _execute_task_except(
             execute_begin([Ctx(Head(files.queue)) EXCEPT !.queue = Tail(files.queue)]))

\* One pass of the body of Scheduler._run_loop, up to its first suspension:
\* _check_scheduled_tasks, then _process_queue.
Tick(l) ==
    /\ \/ loops[l].pc = "ready"
       \/ loops[l].pc = "sleeping" /\ now >= loops[l].wake
    /\ ~sched.stop_event
    /\ next_id + Cardinality(Due) <= MaxTasks + 1
    /\ \A i \in Due : scheduled[i].run_count < MaxRuns
    /\ \E files \in {IF LockFails("scheduled") THEN Files
                     ELSE _check_scheduled_tasks(Files, scheduled, 1)} :
       \E c \in {_process_queue(files)} :
           /\ queue' = c.queue
           /\ running' = c.running
           /\ completed' = c.completed
           /\ failed' = c.failed
           /\ scheduled' = files.scheduled
           /\ next_id' = files.next_id
           /\ executor' = c.executor
           /\ transitions' = c.transitions
           /\ loops' = [loops EXCEPT ![l] =
                  IF c.awaiting
                  THEN [pc |-> "executing", task |-> c.task, wake |-> 0,
                        deadline |-> now + (c.task.timeout \div 1000), logged |-> FALSE]
                  ELSE [pc |-> _run_loop_except(c), task |-> NoTask,
                        wake |-> now + POLL_INTERVAL, deadline |-> 0,
                        logged |-> c.exc # None]]
    /\ UNCHANGED <<sched, stopper, now, locked, deleted, attempts, cronq, sessionVars, sideVars>>

\* The rest of the pass once the agent run of loop l has ended with o: the end
\* of TaskExecutor.execute, Scheduler._execute_task, and the loop's wait for
\* the stop signal.
Finish(l, o) ==
    /\ \E c \in {_execute_task_except(execute_end(Ctx(loops[l].task), o))} :
           /\ queue' = c.queue
           /\ running' = c.running
           /\ completed' = c.completed
           /\ failed' = c.failed
           /\ executor' = c.executor
           /\ transitions' = c.transitions
           /\ loops' = [loops EXCEPT ![l] =
                  [pc |-> IF sched.stop_event THEN "ended" ELSE _run_loop_except(c),
                   task |-> NoTask,
                   wake |-> IF sched.stop_event THEN 0 ELSE now + POLL_INTERVAL,
                   deadline |-> 0,
                   logged |-> c.exc # None]]
    /\ attempts' = [attempts EXCEPT ![loops[l].task.id] =
           [runs |-> @.runs + 1,
            retryable |-> @.retryable /\ OutcomeClass(o) \in RETRYABLE_ERRORS]]
    /\ UNCHANGED <<scheduled, sched, stopper, now, locked, next_id, deleted, cronq, sessionVars, sideVars>>

\* The agent run of loop l ends with o before its deadline.
AgentReturns(l, o) ==
    /\ loops[l].pc = "executing"
    /\ now <= loops[l].deadline
    /\ Finish(l, o)

\* asyncio.wait_for reaches the deadline of the agent run of loop l.
AgentTimeout(l) ==
    /\ loops[l].pc = "executing"
    /\ now >= loops[l].deadline
    /\ Finish(l, TimeoutOutcome)

NoLoop == [pc |-> "unborn", task |-> NoTask, wake |-> 0, deadline |-> 0, logged |-> FALSE]

LoopDone(l) == loops[l].pc \in {"ended", "cancelled"}

\* The coroutine asyncio.create_task would make next.
NewLoop ==
    CHOOSE k \in LoopIds : loops[k].pc = "unborn" /\ \A j \in 1..(k - 1) : loops[j].pc # "unborn"

\* Scheduler.start
Start ==
    /\ transitions' = {}
    /\ IF sched.status \in {"running", "starting"}
       THEN UNCHANGED <<sched, loops>>
       ELSE /\ \E l \in LoopIds : loops[l].pc = "unborn"
            /\ sched' = [status |-> "running", task |-> NewLoop, stop_event |-> FALSE]
            /\ loops' = [loops EXCEPT ![NewLoop].pc = "ready"]
    /\ UNCHANGED <<storeVars, executor, stopper, now, locked, next_id, deleted, attempts,
                   cronq, sessionVars, sideVars>>

\* Scheduler.stop, up to its wait for the loop
Stop ==
    /\ stopper.pc = "idle" \/ sched.status \in {"stopped", "stopping"}
    /\ transitions' = {}
    /\ IF sched.status \in {"stopped", "stopping"}
       THEN UNCHANGED <<sched, loops, stopper>>
       ELSE /\ loops' = [l \in LoopIds |->
                           IF loops[l].pc = "sleeping"
                           THEN [loops[l] EXCEPT !.pc = "woken", !.wake = 0]
                           ELSE loops[l]]
            /\ IF sched.task # NoId /\ ~LoopDone(sched.task)
               THEN /\ sched' = [sched EXCEPT !.status = "stopping", !.stop_event = TRUE]
                    /\ stopper' = [pc |-> "waiting", task |-> sched.task,
                                   deadline |-> now + STOP_WAIT]
               ELSE /\ sched' = [status |-> "stopped", task |-> NoId, stop_event |-> TRUE]
                    /\ UNCHANGED stopper
    /\ UNCHANGED <<storeVars, executor, now, locked, next_id, deleted, attempts, cronq, sessionVars, sideVars>>

\* Scheduler._run_loop leaves its while loop: the stop signal is seen at the
\* loop head, or it ended the wait between two passes.
LoopExit(l) ==
    /\ \/ loops[l].pc = "woken"
       \/ loops[l].pc = "ready" /\ sched.stop_event
    /\ loops' = [loops EXCEPT ![l].pc = "ended"]
    /\ transitions' = {}
    /\ UNCHANGED <<storeVars, executor, sched, stopper, now, locked, next_id, deleted,
                   attempts, cronq, sessionVars, sideVars>>

\* Scheduler.stop: the awaited loop ended within the wait
StopFinish ==
    /\ stopper.pc = "waiting"
    /\ loops[stopper.task].pc = "ended"
    /\ sched' = [sched EXCEPT !.task = NoId, !.status = "stopped"]
    /\ stopper' = [pc |-> "idle", task |-> NoId, deadline |-> 0]
    /\ transitions' = {}
    /\ UNCHANGED <<storeVars, executor, loops, now, locked, next_id, deleted, attempts,
                   cronq, sessionVars, sideVars>>

\* A coroutine that was cancelled.
Cancelled ==
    [pc |-> "cancelled", task |-> NoTask, wake |-> 0, deadline |-> 0, logged |-> FALSE]

\* The coroutines a stop() that ran out of its wait cancels: the one it awaited
\* (asyncio.wait_for cancels it) and self._task (self._task.cancel()).
Hit == {l \in {stopper.task, sched.task} \ {NoId} : ~LoopDone(l)}

\* Scheduler.stop running out of its wait, were CancelledError caught by the
\* except Exception clause of TaskExecutor.execute (it is an Exception before
\* Python 3.8): the cancelled execution is handled as an error.
StopTimeoutCaught ==
    /\ stopper.pc = "waiting"
    /\ now >= stopper.deadline
    /\ ~LoopDone(stopper.task)
    /\ loops' = [l \in LoopIds |-> IF l \in Hit THEN Cancelled ELSE loops[l]]
    /\ \E c \in {IF \E l \in Hit : loops[l].pc = "executing"
                  THEN Finally(_handle_error(
                           Ctx(loops[CHOOSE l \in Hit : loops[l].pc = "executing"].task),
                           Error("CancelledError", {})))
                  ELSE Ctx(NoTask)} :
           /\ queue' = c.queue
           /\ running' = c.running
           /\ completed' = c.completed
           /\ failed' = c.failed
           /\ executor' = c.executor
    /\ sched' = [sched EXCEPT !.task = NoId, !.status = "stopped"]
    /\ stopper' = [pc |-> "idle", task |-> NoId, deadline |-> 0]
    /\ transitions' = {}
    /\ UNCHANGED <<scheduled, now, locked, next_id, deleted, attempts, cronq, sessionVars, sideVars>>

\* Scheduler.stop: the wait of 5 seconds ran out. CancelledError passes the
\* handlers of TaskExecutor.execute, whose finally clause clears the flags.
StopTimeout ==
    /\ stopper.pc = "waiting"
    /\ now >= stopper.deadline
    /\ ~LoopDone(stopper.task)
    /\ loops' = [l \in LoopIds |-> IF l \in Hit THEN Cancelled ELSE loops[l]]
    /\ executor' = IF \E l \in Hit : loops[l].pc = "executing"
                   THEN [executor EXCEPT !.is_executing = FALSE, !.current_task = NoId]
                   ELSE executor
    /\ sched' = [sched EXCEPT !.task = NoId, !.status = "stopped"]
    /\ stopper' = [pc |-> "idle", task |-> NoId, deadline |-> 0]
    /\ transitions' = {}
    /\ UNCHANGED <<storeVars, now, locked, next_id, deleted, attempts, cronq, sessionVars, sideVars>>

\* The clock moves on.
Advance ==
    /\ now + TimeStep <= MaxNow
    /\ now' = now + TimeStep
    /\ transitions' = {}
    /\ UNCHANGED <<storeVars, executor, sched, loops, stopper, locked, next_id, deleted,
                   attempts, cronq, sessionVars, sideVars>>

\* ------------------------------------------------------------- HTTP surface
\* The request bodies posted to the API, and the Tasks handed to
\* QueueStorage.add directly (a blank prompt, a timeout below MIN_TIMEOUT).
RequestSamples ==
    {[prompt |-> <<" ", "e">>, timeout |-> 5000], [prompt |-> <<" ">>, timeout |-> 5000]}

DirectSamples ==
    {[prompt |-> <<" ">>, timeout |-> 5000], [prompt |-> <<"e">>, timeout |-> 999]}

\* validate_prompt and validate_timeout of the router accept the request
RequestValid(prompt, timeout) ==
    /\ prompt # <<>> /\ strip(prompt) # <<>>
    /\ timeout >= MIN_TIMEOUT /\ timeout <= MAX_TIMEOUT

\* POST /api/tasks: create_task
create_task(prompt, timeout) ==
    /\ next_id <= MaxTasks
    /\ transitions' = {}
    /\ IF RequestValid(prompt, timeout) /\ ~LockFails("queue")
       THEN /\ queue' = storage_add(queue, Task(next_id, strip(prompt), timeout, FALSE, NoId))
            /\ next_id' = next_id + 1
       ELSE UNCHANGED <<queue, next_id>>
    /\ UNCHANGED <<running, completed, failed, scheduled, executor, sched, loops, stopper,
                   now, locked, deleted, attempts, cronq, sessionVars, sideVars>>

\* QueueStorage.add called with a Task built by the caller
queue_add_task(prompt, timeout) ==
    /\ next_id <= MaxTasks
    /\ ~LockFails("queue")
    /\ queue' = storage_add(queue, Task(next_id, prompt, timeout, FALSE, NoId))
    /\ next_id' = next_id + 1
    /\ transitions' = {}
    /\ UNCHANGED <<running, completed, failed, scheduled, executor, sched, loops, stopper,
                   now, locked, deleted, attempts, cronq, sessionVars, sideVars>>

\* VALID_TOOLS of the router, the fixed tool registry
VALID_TOOLS ==
    {"Read", "Write", "Edit", "Glob", "Grep", "Bash", "Task", "TodoWrite", "WebFetch",
     "WebSearch", "NotebookEdit"}

\* Tasks handed to the executor as they are: blank and non-blank prompts, the
\* timeouts on both sides of each limit, and tool lists with and without a
\* name outside the registry.
ExecuteSamples ==
    [prompt : {<<>>, <<" ">>, <<"e">>},
     timeout : {MIN_TIMEOUT - 1, MIN_TIMEOUT, MAX_TIMEOUT, MAX_TIMEOUT + 1},
     allowed_tools : {None, Some({"Read", "Bash"}), Some({"Read", "Shell"})}]

\* QueueStorage.add called with a Task whose allowed_tools the caller set
queue_add_sample(r) ==
    /\ next_id <= MaxTasks
    /\ ~LockFails("queue")
    /\ queue' = storage_add(queue,
                    [Task(next_id, r.prompt, r.timeout, FALSE, NoId)
                        EXCEPT !.allowed_tools = r.allowed_tools])
    /\ next_id' = next_id + 1
    /\ transitions' = {}
    /\ UNCHANGED <<running, completed, failed, scheduled, executor, sched, loops, stopper,
                   now, locked, deleted, attempts, cronq, sessionVars, sideVars>>

\* DELETE /api/tasks/{task_id}: delete_task
delete_task(task_id) ==
    /\ ~LockFails("queue")
    /\ queue' = queue_remove(queue, task_id)
    /\ deleted' = IF task_id \in Ids(queue) THEN deleted \cup {task_id} ELSE deleted
    /\ transitions' = {}
    /\ UNCHANGED <<running, completed, failed, scheduled, executor, sched, loops, stopper,
                   now, locked, next_id, attempts, cronq, sessionVars, sideVars>>

\* DELETE /api/tasks/clear: clear_tasks
clear_tasks ==
    /\ ~LockFails("queue")
    /\ queue # <<>>
    /\ queue' = <<>>
    /\ deleted' = deleted \cup Ids(queue)
    /\ transitions' = {}
    /\ UNCHANGED <<running, completed, failed, scheduled, executor, sched, loops, stopper,
                   now, locked, next_id, attempts, cronq, sessionVars, sideVars>>

\* CronParser._validate_field
_validate_field(field, field_type) ==
    IF field.is_last_day \/ field.is_weekday THEN TRUE
    ELSE \A i \in DOMAIN field.values :
             field.values[i] >= RANGES[field_type][1] /\ field.values[i] <= RANGES[field_type][2]

\* The names of the fields of an expression of n fields.
FieldNames(n) ==
    IF n = 6 THEN <<"second", "minute", "hour", "day", "month", "weekday">>
    ELSE <<"minute", "hour", "day", "month", "weekday">>

\* CronParser.validate: the parse and the check of each field
ValidFields(expression, n) ==
    /\ expression # ValueError
    /\ \A i \in DOMAIN FieldNames(n) : _validate_field(expression.fields[i], FieldNames(n)[i])

\* CronParser.validate
validate(cron, from_time) ==
    /\ Len(cron) \in {5, 6}
    /\ ValidFields(parse(cron), Len(cron))
    /\ calculate_next_run(cron, from_time) # None

\* The cron expressions (by their index in CronSamples) posted to the API.
ScheduledCrons == {1, 2, 9}

\* next_run.isoformat() if next_run else None
NextRunText(next_run) == IF next_run # None THEN isoformat(next_run[1]) ELSE None

\* POST /api/scheduled-tasks: create_scheduled_task
create_scheduled_task(k, enabled) ==
    /\ Len(scheduled) < MaxScheduled
    /\ transitions' = {}
    /\ IF validate(CronSamples[k], now) /\ ~LockFails("scheduled")
       THEN scheduled' = scheduled_save(scheduled,
                ScheduledTask(Len(scheduled) + 1, <<"e">>, CronSamples[k], 5000, enabled,
                              NextRunText(calculate_next_run(CronSamples[k], now))))
       ELSE UNCHANGED scheduled
    /\ UNCHANGED <<queue, running, completed, failed, executor, sched, loops, stopper, now,
                   locked, next_id, deleted, attempts, cronq, sessionVars, sideVars>>

\* ScheduledStorage.get: the stored entries with this id
scheduled_get(tasks, task_id) == {i \in DOMAIN tasks : tasks[i].id = task_id}

\* The bodies of PATCH /api/scheduled-tasks/{task_id}: the keys "cron" (an
\* index in CronSamples) and "enabled", each present or not.
UpdateSamples ==
    [cron : {None} \cup {Some(k) : k \in ScheduledCrons}, enabled : {None, Some(TRUE), Some(FALSE)}]

\* update_scheduled_task: the entry after the "cron" key was handled
UpdatedCron(s, request) ==
    IF request.cron = None THEN s
    ELSE [s EXCEPT !.cron = CronSamples[request.cron[1]],
                   !.next_run = NextRunText(calculate_next_run(CronSamples[request.cron[1]], now))]

\* update_scheduled_task: the entry after the "enabled" key was handled
UpdatedEnabled(s, request) ==
    IF request.enabled = None THEN s
    ELSE [s EXCEPT !.enabled = request.enabled[1],
                   !.next_run = IF ~request.enabled[1] THEN None
                                ELSE NextRunText(calculate_next_run(s.cron, now))]

\* PATCH /api/scheduled-tasks/{task_id}: update_scheduled_task
update_scheduled_task(task_id, request) ==
    /\ scheduled_get(scheduled, task_id) # {}
    /\ request.cron # None => validate(CronSamples[request.cron[1]], now)
    /\ ~LockFails("scheduled")
    /\ \E i \in scheduled_get(scheduled, task_id) :
           scheduled' = scheduled_save(scheduled,
                            UpdatedEnabled(UpdatedCron(scheduled[i], request), request))
    /\ transitions' = {}
    /\ UNCHANGED <<queue, running, completed, failed, executor, sched, loops, stopper, now,
                   locked, next_id, deleted, attempts, cronq, sessionVars, sideVars>>

\* POST /api/scheduled-tasks/{task_id}/toggle: toggle_scheduled_task
toggle_scheduled_task(task_id) ==
    /\ scheduled_get(scheduled, task_id) # {}
    /\ ~LockFails("scheduled")
    /\ \E i \in scheduled_get(scheduled, task_id) :
           scheduled' = scheduled_save(scheduled,
               [scheduled[i] EXCEPT
                    !.enabled = ~@,
                    !.next_run = IF ~scheduled[i].enabled
                                 THEN NextRunText(calculate_next_run(scheduled[i].cron, now))
                                 ELSE None])
    /\ transitions' = {}
    /\ UNCHANGED <<queue, running, completed, failed, executor, sched, loops, stopper, now,
                   locked, next_id, deleted, attempts, cronq, sessionVars, sideVars>>

\* Scheduler.run_task_now: it looks the task up in the queue and returns it
\* (None when the queue does not hold it); returned keeps what it returned.
run_task_now(task_id) ==
    /\ ~LockFails("queue")
    /\ returned' = IF task_id \in Ids(queue) THEN Some(task_id) ELSE None
    /\ transitions' = {}
    /\ UNCHANGED <<storeVars, executor, sched, loops, stopper, now, locked, next_id,
                   deleted, attempts, cronq, sessionVars>>
    /\ UNCHANGED <<disk, calls, managers, asking, loop_time, registry, streams, lookup>>

\* Scheduler.run_scheduled_now (POST /api/scheduled-tasks/{task_id}/run): a
\* Task built from the ScheduledTask goes through QueueStorage.add.
run_scheduled_now(scheduled_id) ==
    /\ next_id <= MaxTasks
    /\ ~LockFails("scheduled") /\ ~LockFails("queue")
    /\ transitions' = {}
    /\ IF scheduled_get(scheduled, scheduled_id) = {}
       THEN /\ returned' = None
            /\ UNCHANGED <<queue, next_id>>
       ELSE /\ \E i \in scheduled_get(scheduled, scheduled_id) :
                   queue' = storage_add(queue,
                       Task(next_id, scheduled[i].prompt, scheduled[i].timeout, TRUE,
                            scheduled[i].id))
            /\ next_id' = next_id + 1
            /\ returned' = Some(next_id)
    /\ UNCHANGED <<running, completed, failed, scheduled, executor, sched, loops, stopper,
                   now, locked, deleted, attempts, cronq, sessionVars>>
    /\ UNCHANGED <<disk, calls, managers, asking, loop_time, registry, streams, lookup>>

\* ------------------------------------------------------------- environment
LockFiles == {"queue", "running"}

\* Another holder creates the .lock sentinel of a file and keeps it.
LockHeld(file) ==
    /\ file \notin locked
    /\ locked' = locked \cup {file}
    /\ transitions' = {}
    /\ UNCHANGED <<storeVars, executor, sched, loops, stopper, now, next_id, deleted,
                   attempts, cronq, sessionVars, sideVars>>

\* The sentinel is removed.
LockReleased(file) ==
    /\ file \in locked
    /\ locked' = locked \ {file}
    /\ transitions' = {}
    /\ UNCHANGED <<storeVars, executor, sched, loops, stopper, now, next_id, deleted,
                   attempts, cronq, sessionVars, sideVars>>

\* ------------------------------------------------ questions put to the user
\* The session id run_task_stream generates, and the one the agent reports
\* in its ResultMessage.
SessionIds == {"s1"}
SdkSessionId == "sdk"

\* AssistantMessage content blocks: TextBlock, ToolUseBlock of an ordinary
\* tool, ToolUseBlock of AskUserQuestion carrying its question_id and
\* timeout_seconds.
TextBlock == [b |-> "text", question_id |-> "", timeout_seconds |-> 0]
ToolUseBlock == [b |-> "tool", question_id |-> "", timeout_seconds |-> 0]
AskBlock(q) == [b |-> "ask", question_id |-> q, timeout_seconds |-> QuestionTimeout]

AssistantMessage(content) == [kind |-> "assistant", content |-> content]
ResultMessage == [kind |-> "result", content |-> <<>>]

\* What client.receive_response() delivers over a run, per sample run.
ScriptSamples ==
    <<  <<AssistantMessage(<<TextBlock>>), AssistantMessage(<<AskBlock("q1")>>),
          AssistantMessage(<<TextBlock>>), ResultMessage>>,
        <<AssistantMessage(<<TextBlock, ToolUseBlock>>), ResultMessage>>,
        <<AssistantMessage(<<AskBlock("q1"), TextBlock>>),
          AssistantMessage(<<AskBlock("q2")>>), ResultMessage>>  >>

\* The bodies posted to /api/task/answer: the question_id and the answer text.
AnswerSamples ==
    {[question_id |-> q, answer |-> a] :
         q \in {"q1", "q2", "q9"}, a \in {<<"y", "e", "s">>, <<"<">>}}

\* StreamMessage(type=...), with the block of the agent's output it renders.
StreamMessage(type, msg, block, q) ==
    [type |-> type, msg |-> msg, block |-> block, question_id |-> q]

Min(a, b) == IF a <= b THEN a ELSE b

\* InputValidator.sanitize_user_input
dangerous_chars == {"<", ">", "&", "quote", "apostrophe", "backtick"}

sanitize_user_input(text) ==
    SubSeq(SelectSeq(text, LAMBDA ch : ch \notin dangerous_chars), 1,
           Min(max_input_length,
               Len(SelectSeq(text, LAMBDA ch : ch \notin dangerous_chars))))

\* a dict with the key set to the value
Put(dict, key, value) == [k \in DOMAIN dict \cup {key} |-> IF k = key THEN value ELSE dict[k]]

\* ClaudeCodeClient.__init__ followed by set_session_id
ClaudeCodeClient(session_id) ==
    [session_id |-> session_id, answer_event |-> "none", pending_answer |-> None,
     pending_question_id |-> None, is_waiting_answer |-> FALSE,
     question_states |-> [q \in {} |-> ""], active_questions |-> {}]

NoClient == ClaudeCodeClient("")

\* ClaudeCodeClient._update_question_state
_update_question_state(cl, question_id, status) ==
    [cl EXCEPT !.question_states = Put(@, question_id, status)]

\* run_stream at an AskUserQuestion block, up to its yield: the slot is
\* acquired, the state is PENDING, the event and the waiting fields are set.
ask_user_question(cl, block) ==
    [_update_question_state(cl, block.question_id, "pending")
         EXCEPT !.active_questions = @ \cup {block.question_id},
                !.answer_event = "unset",
                !.is_waiting_answer = TRUE,
                !.pending_answer = None,
                !.pending_question_id = Some(block.question_id)]

\* wait_for_answer whose finally clause leaves the pending question id in place
wait_for_answer_finally_keeps_pending(cl) ==
    [cl EXCEPT !.is_waiting_answer = FALSE, !.answer_event = "none"]

\* the finally clause of wait_for_answer
wait_for_answer_finally(cl) ==
    [cl EXCEPT !.is_waiting_answer = FALSE, !.answer_event = "none",
               !.pending_question_id = None]

\* run_stream from wait_for_answer's return to the block's continue: the
\* slot is released, the state recorded and the tool result handed to the agent.
after_wait(cl, question_id, status, final) ==
    [wait_for_answer_finally(_update_question_state(cl, question_id, status))
         EXCEPT !.active_questions = @ \ {question_id},
                !.question_states = Put(@, question_id, final)]

\* the tool result _send_tool_result_via_query hands to the agent
ToolResult(question_id, answer) ==
    [question_id |-> question_id,
     content |-> IF answer = None THEN "User did not answer the question."
                 ELSE "User has answered your questions",
     answer |-> answer]

\* run_stream's loop over message.content from block j on, then the
\* yield of stream_msg that follows the loop: the client as it
\* is when run_stream next suspends, where it suspends, and what it yields.
RECURSIVE for_block_in_content(_, _, _, _, _)
for_block_in_content(cl, content, i, j, stream_msg) ==
    IF j > Len(content)
    THEN IF stream_msg = None
         THEN [client |-> cl, pc |-> "receiving", msg |-> i + 1, block |-> 0, out |-> None]
         ELSE [client |-> cl, pc |-> "yielded", msg |-> i, block |-> 0, out |-> stream_msg]
    ELSE CASE content[j].b = "text" ->
                  for_block_in_content(cl, content, i, j + 1,
                                       Some(StreamMessage("text", i, j, "")))
           [] content[j].b = "tool" ->
                  for_block_in_content(cl, content, i, j + 1,
                                       Some(StreamMessage("tool_use", i, j, "")))
           [] content[j].b = "ask" ->
                  [client |-> ask_user_question(cl, content[j]), pc |-> "question",
                   msg |-> i, block |-> j,
                   out |-> Some(StreamMessage("ask_user_question", i, j,
                                              content[j].question_id))]

\* run_stream on the message receive_response delivers
on_message(cl, script, i) ==
    IF script[i].kind = "result"
    THEN [client |-> [cl EXCEPT !.session_id = SdkSessionId], pc |-> "yielded",
          msg |-> i, block |-> 0, out |-> Some(StreamMessage("complete", i, 0, ""))]
    ELSE for_block_in_content(cl, script[i].content, i, 1, None)

\* SessionManager.set_waiting
set_waiting(dict, session_id, waiting) ==
    IF session_id \in DOMAIN dict
    THEN [dict EXCEPT ![session_id].is_waiting = waiting]
    ELSE dict

\* SessionManager.remove_session
remove_session(dict, session_id) == [k \in DOMAIN dict \ {session_id} |-> dict[k]]

\* run_stream runs on to its next suspension; when it yields, the body of
\* event_generator's loop marks the session waiting if the client is, and
\* the event goes out on the stream.
Pump(sid, r) ==
    /\ client' = r.client
    /\ stream' = [stream EXCEPT !.pc = r.pc, !.msg = r.msg, !.block = r.block,
                                !.deadline = 0]
    /\ sessions' = IF r.out # None /\ r.client.is_waiting_answer
                   THEN set_waiting(sessions, sid, TRUE)
                   ELSE sessions
    /\ sse' = IF r.out = None THEN sse ELSE Append(sse, r.out[1])

\* POST /api/task/stream: run_task_stream creates the client and the
\* session; event_generator starts run_stream, which sends its query.
run_task_stream(sid, k) ==
    /\ stream.pc = "idle"
    /\ client' = ClaudeCodeClient(sid)
    /\ sessions' = Put(sessions, sid, [is_waiting |-> FALSE, pending_question_id |-> None,
                                       created_at |-> loop_time])
    /\ stream' = [stream EXCEPT !.pc = "receiving", !.session_id = sid,
                                !.script = k, !.msg = 1]
    /\ transitions' = {}
    /\ UNCHANGED <<sse, injected, replies>>
    /\ UNCHANGED <<storeVars, executor, sched, loops, stopper, now, locked, next_id,
                   deleted, attempts, cronq, sideVars>>

\* client.receive_response() delivers the agent's next message.
Receive ==
    /\ stream.pc = "receiving"
    /\ stream.msg <= Len(ScriptSamples[stream.script])
    /\ Pump(stream.session_id, on_message(client, ScriptSamples[stream.script], stream.msg))
    /\ transitions' = {}
    /\ UNCHANGED <<injected, replies>>
    /\ UNCHANGED <<storeVars, executor, sched, loops, stopper, now, locked, next_id,
                   deleted, attempts, cronq, sideVars>>

\* The event went out and the response asks event_generator for the next
\* one: run_stream resumes after its yield. After the question's yield it
\* enters wait_for_answer (state SHOWING); after a message's last yield it
\* awaits the next message; after the ResultMessage's yield the stream is
\* over and event_generator removes the session.
Resume ==
    /\ stream.pc \in {"question", "yielded"}
    /\ \E script \in {ScriptSamples[stream.script]} :
         IF stream.pc = "question"
         THEN /\ client' = _update_question_state(
                               client, script[stream.msg].content[stream.block].question_id,
                               "showing")
              /\ stream' = [stream EXCEPT
                                !.pc = "waiting",
                                !.deadline = now + script[stream.msg].content[stream.block]
                                                       .timeout_seconds]
              /\ UNCHANGED sessions
         ELSE IF script[stream.msg].kind = "result"
         THEN /\ stream' = [stream EXCEPT !.pc = "done"]
              /\ sessions' = remove_session(sessions, stream.session_id)
              /\ UNCHANGED client
         ELSE /\ stream' = [stream EXCEPT !.pc = "receiving", !.msg = @ + 1]
              /\ UNCHANGED <<client, sessions>>
    /\ transitions' = {}
    /\ UNCHANGED <<sse, injected, replies>>
    /\ UNCHANGED <<storeVars, executor, sched, loops, stopper, now, locked, next_id,
                   deleted, attempts, cronq, sideVars>>

\* wait_for_answer returns (the answer, or None at the timeout) and
\* run_stream goes on from there to its next suspension.
WaitOver(status, final, answer) ==
    /\ \E content \in {ScriptSamples[stream.script][stream.msg].content} :
         /\ injected' = Append(injected, ToolResult(content[stream.block].question_id, answer))
         /\ Pump(stream.session_id,
                 for_block_in_content(
                     after_wait(client, content[stream.block].question_id, status, final),
                     content, stream.msg, stream.block + 1,
                     Some(StreamMessage("ask_user_question", stream.msg, stream.block,
                                        content[stream.block].question_id))))
    /\ transitions' = {}
    /\ UNCHANGED replies
    /\ UNCHANGED <<storeVars, executor, sched, loops, stopper, now, locked, next_id,
                   deleted, attempts, cronq, sideVars>>

\* The event is set: wait_for_answer returns the pending answer.
WaitReturns ==
    /\ stream.pc = "waiting"
    /\ client.answer_event = "set"
    /\ WaitOver("answered", "completed", client.pending_answer)

\* asyncio.wait_for gives up on the event at timeout_seconds.
WaitTimeout ==
    /\ stream.pc = "waiting"
    /\ client.answer_event = "unset"
    /\ now >= stream.deadline
    /\ WaitOver("timeout", "timeout", None)

\* The browser closes the event stream: the response task is cancelled, the
\* CancelledError passes through event_generator's except Exception, and a
\* wait_for_answer in progress runs its finally clause.
Disconnect ==
    /\ stream.pc \in {"receiving", "question", "yielded", "waiting"}
    /\ stream' = [stream EXCEPT !.pc = "closed"]
    /\ client' = IF stream.pc = "waiting" THEN wait_for_answer_finally(client) ELSE client
    /\ transitions' = {}
    /\ UNCHANGED <<sessions, sse, injected, replies>>
    /\ UNCHANGED <<storeVars, executor, sched, loops, stopper, now, locked, next_id,
                   deleted, attempts, cronq, sideVars>>

\* ClaudeCodeClient.submit_answer: whether it takes the answer
client_accepts(cl, answer) ==
    /\ sanitize_user_input(answer.answer) # <<>>
    /\ cl.session_id # ""
    /\ answer.question_id \in DOMAIN cl.question_states
    /\ cl.question_states[answer.question_id] = "showing"
    /\ cl.answer_event = "unset"

\* ClaudeCodeClient.submit_answer
client_submit_answer(cl, answer) ==
    IF client_accepts(cl, answer)
    THEN [_update_question_state(cl, answer.question_id, "processing")
              EXCEPT !.pending_answer = Some(answer), !.answer_event = "set"]
    ELSE cl

\* POST /api/task/answer without its comparison of the question_id
answer_status_any_question(sid, answer) ==
    IF sid \notin DOMAIN sessions THEN 404
    ELSE IF ~sessions[sid].is_waiting THEN 400
    ELSE IF ~client.is_waiting_answer THEN 400
    ELSE 200

\* the status POST /api/task/answer replies with
answer_status(sid, answer) ==
    IF sid \notin DOMAIN sessions THEN 404
    ELSE IF ~sessions[sid].is_waiting THEN 400
    ELSE IF ~client.is_waiting_answer THEN 400
    ELSE IF client.pending_question_id # None
            /\ client.pending_question_id # Some(answer.question_id) THEN 400
    ELSE 200

\* POST /api/task/answer (routers/task.py submit_answer)
submit_answer(sid, answer) ==
    /\ Len(replies) < MaxAnswers
    /\ stream.pc # "idle"
    /\ IF answer_status(sid, answer) = 200
       THEN /\ client' = client_submit_answer(client, answer)
            /\ sessions' = set_waiting(sessions, sid, FALSE)
       ELSE UNCHANGED <<client, sessions>>
    /\ replies' = Append(replies, [answer |-> answer,
                                   status |-> answer_status(sid, answer),
                                   success |-> answer_status(sid, answer) = 200,
                                   taken |-> /\ answer_status(sid, answer) = 200
                                             /\ client_accepts(client, answer)])
    /\ transitions' = {}
    /\ UNCHANGED <<stream, sse, injected>>
    /\ UNCHANGED <<storeVars, executor, sched, loops, stopper, now, locked, next_id,
                   deleted, attempts, cronq, sideVars>>

\* GET /api/task/session/{session_id}/status
get_session_status(sid) ==
    IF sid \in DOMAIN sessions
    THEN [status |-> 200, is_waiting |-> sessions[sid].is_waiting,
          pending_question_id |-> client.pending_question_id]
    ELSE [status |-> 404, is_waiting |-> FALSE, pending_question_id |-> None]

InitSession ==
    /\ client = NoClient
    /\ sessions = [s \in {} |-> [is_waiting |-> FALSE, pending_question_id |-> None,
                                  created_at |-> 0]]
    /\ stream = [pc |-> "idle", session_id |-> "", script |-> 0, msg |-> 0, block |-> 0,
                 deadline |-> 0]
    /\ sse = <<>>
    /\ injected = <<>>
    /\ replies = <<>>

\* ------------------------------------------------- storage calls, step by step
\* The callers of the storage that run side by side: caller 1 is the process
\* that runs the scheduler and its executor, the others are API requests
\* served by other processes on the same data directory.
CallerIds == 1..MaxCallers
Engine == 1

\* The collection files of the data directory.
Collections == {"queue", "running", "completed", "failed"}

\* A collection file: whether json.loads can parse it, and the entries it holds.
File(tasks) == [ok |-> TRUE, tasks |-> tasks]

\* A caller that is in no storage call; task is the Task a process holds in
\* memory between its calls.
NoCall ==
    [plan |-> <<>>, pc |-> "read", data |-> <<>>, task |-> NoId, raised |-> FALSE,
     result |-> None]

\* The storage methods a caller goes through, each as <<file, method>>.
PlanSamples ==
    [add |-> << <<"queue", "add">> >>,
     get_all |-> << <<"queue", "get_all">> >>,
     count |-> << <<"queue", "count">> >>,
     process |-> << <<"queue", "pop">>, <<"running", "add">> >>,
     success |-> << <<"running", "remove">>, <<"completed", "_add">> >>,
     failure |-> << <<"running", "remove">>, <<"failed", "_add">> >>,
     retry |-> << <<"running", "remove">>, <<"queue", "add">> >>]

\* A caller enters the first storage method of a plan.
Begin(c, plan, task) ==
    /\ calls[c].plan = <<>>
    /\ calls' = [calls EXCEPT ![c] = [NoCall EXCEPT !.plan = plan, !.task = task]]

\* An API request calls QueueStorage.add with a new Task.
StoreAdd(c) ==
    /\ c # Engine
    /\ next_id <= MaxTasks
    /\ Begin(c, PlanSamples.add, next_id)
    /\ next_id' = next_id + 1
    /\ transitions' = {}
    /\ UNCHANGED <<disk, returned, managers, asking, loop_time, registry, streams, lookup>>
    /\ UNCHANGED <<storeVars, executor, sched, loops, stopper, now, locked, deleted,
                   attempts, cronq, sessionVars>>

\* An API request calls QueueStorage.get_all or QueueStorage.count.
StoreRead(c, method) ==
    /\ c # Engine
    /\ Begin(c, PlanSamples[method], NoId)
    /\ transitions' = {}
    /\ UNCHANGED <<disk, returned, managers, asking, loop_time, registry, streams, lookup>>
    /\ UNCHANGED <<storeVars, executor, sched, loops, stopper, now, locked, next_id,
                   deleted, attempts, cronq, sessionVars>>

\* The scheduler's pass: QueueStorage.pop, then RunningStorage.add of the
\* task popped (Scheduler._process_queue, TaskExecutor.execute).
StoreProcess ==
    /\ calls[Engine].task = NoId
    /\ Begin(Engine, PlanSamples.process, NoId)
    /\ transitions' = {}
    /\ UNCHANGED <<disk, returned, managers, asking, loop_time, registry, streams, lookup>>
    /\ UNCHANGED <<storeVars, executor, sched, loops, stopper, now, locked, next_id,
                   deleted, attempts, cronq, sessionVars>>

\* The executor's move at the end of a run: RunningStorage.remove, then
\* HistoryStorage.add_completed, add_failed or QueueStorage.add
\* (_handle_success, _handle_retry).
StoreFinish(kind) ==
    /\ calls[Engine].task # NoId
    /\ Begin(Engine, PlanSamples[kind], calls[Engine].task)
    /\ transitions' = {}
    /\ UNCHANGED <<disk, returned, managers, asking, loop_time, registry, streams, lookup>>
    /\ UNCHANGED <<storeVars, executor, sched, loops, stopper, now, locked, next_id,
                   deleted, attempts, cronq, sessionVars>>

\* What a reading method returns for the entries read.
Returned(method, tasks) ==
    IF method = "count" THEN Some(Len(tasks)) ELSE Some(Ids(tasks))

\* The read of a storage method: BaseStorage._read (one critical section of
\* the file's lock) or HistoryStorage._read_history (no lock). json.loads
\* raises on content it cannot parse and the exception leaves the method; a
\* reading method returns; pop on an empty list returns None; every other
\* method goes on to its write.
ReadStep(c) ==
    /\ calls[c].plan # <<>>
    /\ calls[c].pc = "read"
    /\ \E file \in {disk[Head(calls[c].plan)[1]]}, method \in {Head(calls[c].plan)[2]} :
         calls' = [calls EXCEPT ![c] =
             IF ~file.ok
             THEN [@ EXCEPT !.plan = <<>>, !.raised = TRUE, !.task = NoId]
             ELSE IF method \in {"get_all", "count"}
             THEN [@ EXCEPT !.plan = Tail(@), !.result = Returned(method, file.tasks)]
             ELSE IF method = "pop" /\ file.tasks = <<>>
             THEN [@ EXCEPT !.plan = <<>>]
             ELSE [@ EXCEPT !.pc = "write", !.data = file.tasks]]
    /\ transitions' = {}
    /\ UNCHANGED <<disk, returned, managers, asking, loop_time, registry, streams, lookup>>
    /\ UNCHANGED <<storeVars, executor, sched, loops, stopper, now, locked, next_id,
                   deleted, attempts, cronq, sessionVars>>

\* The entries a method writes back, from the entries it read.
Modified(method, data, id) ==
    CASE method = "add" -> storage_add(data, [id |-> id])
      [] method = "remove" -> storage_remove(data, id)
      [] method = "pop" -> Tail(data)
      [] method = "_add" -> history_add(data, [id |-> id])

\* The write of a storage method: BaseStorage._write (a second critical
\* section of the file's lock) or HistoryStorage._write_history (no lock)
\* replaces the file by the entries read earlier, modified. pop hands the
\* first entry read to the caller; the last method of a move that files the
\* task leaves the process without it.
WriteStep(c) ==
    /\ calls[c].plan # <<>>
    /\ calls[c].pc = "write"
    /\ \E object \in {Head(calls[c].plan)[1]}, method \in {Head(calls[c].plan)[2]} :
         \E id \in {IF method = "pop" THEN Head(calls[c].data).id ELSE calls[c].task} :
           /\ disk' = [disk EXCEPT ![object] = File(Modified(method, calls[c].data, id))]
           /\ calls' = [calls EXCEPT ![c] =
                  [@ EXCEPT !.plan = Tail(@), !.pc = "read", !.data = <<>>,
                            !.task = IF Len(calls[c].plan) = 1 /\ object # "running"
                                     THEN NoId ELSE id]]
    /\ transitions' = {}
    /\ UNCHANGED <<returned, managers, asking, loop_time, registry, streams, lookup>>
    /\ UNCHANGED <<storeVars, executor, sched, loops, stopper, now, locked, next_id,
                   deleted, attempts, cronq, sessionVars>>

\* A collection file is left with content that is no JSON document (a
\* truncated or damaged file).
Damage(object) ==
    /\ disk[object].ok
    /\ disk' = [disk EXCEPT ![object].ok = FALSE]
    /\ transitions' = {}
    /\ UNCHANGED <<calls, returned, managers, asking, loop_time, registry, streams, lookup>>
    /\ UNCHANGED <<storeVars, executor, sched, loops, stopper, now, locked, next_id,
                   deleted, attempts, cronq, sessionVars>>

\* ------------------------------------------------------- question slots
\* The ClaudeCodeClients alive at once (each is built with a
\* ConcurrencyManager of its own), and the question ids handed to a manager.
ClientIds == 1..MaxClients
QuestionKeys == 1..MaxQuestions

\* ConcurrencyManager.__init__; lock tells whether its asyncio.Lock is held
NewConcurrencyManager == [active_questions |-> {}, question_queue |-> <<>>, lock |-> FALSE]

\* len(self.active_questions) >= self.max_concurrent_questions does not hold
can_acquire(m) == Cardinality(m.active_questions) < max_concurrent_questions

\* ConcurrencyManager.acquire_question_slot: the manager it leaves
acquire_question_slot(m, q) ==
    IF can_acquire(m)
    THEN [m EXCEPT !.active_questions = @ \cup {q}]
    ELSE [m EXCEPT !.question_queue = Append(@, q)]

\* ConcurrencyManager.release_question_slot: the manager it leaves. With a
\* queued item it calls acquire_question_slot while it holds the lock, and
\* asyncio.Lock is not reentrant: the call never returns and the lock stays held.
release_question_slot(m, q) ==
    IF m.question_queue = <<>>
    THEN [m EXCEPT !.active_questions = @ \ {q}]
    ELSE [m EXCEPT !.active_questions = @ \ {q}, !.question_queue = Tail(@), !.lock = TRUE]

\* run_stream of client k comes to an AskUserQuestion block with id q: with a
\* slot it emits the question and waits for the answer, without one it emits
\* the busy text and goes on to the next block.
Ask(k, q) ==
    /\ asking[k].pc = "idle"
    /\ ~managers[k].lock
    /\ q \notin managers[k].active_questions
    /\ managers' = [managers EXCEPT ![k] = acquire_question_slot(@, q)]
    /\ asking' = [asking EXCEPT ![k] =
                      [pc |-> IF can_acquire(managers[k]) THEN "waiting" ELSE "busy",
                       question |-> q]]
    /\ transitions' = {}
    /\ UNCHANGED <<disk, calls, returned, loop_time, registry, streams, lookup>>
    /\ UNCHANGED <<storeVars, executor, sched, loops, stopper, now, locked, next_id,
                   deleted, attempts, cronq, sessionVars>>

\* wait_for_answer of client k returns (an answer or the timeout) and
\* run_stream releases the slot, then hands the tool result to the agent.
Answered(k) ==
    /\ asking[k].pc = "waiting"
    /\ ~managers[k].lock
    /\ managers' = [managers EXCEPT ![k] = release_question_slot(@, asking[k].question)]
    /\ asking' = [asking EXCEPT ![k].pc =
                      IF managers[k].question_queue = <<>> THEN "done" ELSE "releasing"]
    /\ transitions' = {}
    /\ UNCHANGED <<disk, calls, returned, loop_time, registry, streams, lookup>>
    /\ UNCHANGED <<storeVars, executor, sched, loops, stopper, now, locked, next_id,
                   deleted, attempts, cronq, sessionVars>>

\* The questions of manager k that no run_stream of the model waits on.
Foreign(k) ==
    managers[k].active_questions \
        (IF asking[k].pc = "waiting" THEN {asking[k].question} ELSE {})

\* ConcurrencyManager.acquire_question_slot called on the manager of k by
\* another user of the object.
Acquire(k, q) ==
    /\ ~managers[k].lock
    /\ q \notin managers[k].active_questions
    /\ can_acquire(managers[k])
    /\ managers' = [managers EXCEPT ![k] = acquire_question_slot(@, q)]
    /\ transitions' = {}
    /\ UNCHANGED <<disk, calls, returned, asking, loop_time, registry, streams, lookup>>
    /\ UNCHANGED <<storeVars, executor, sched, loops, stopper, now, locked, next_id,
                   deleted, attempts, cronq, sessionVars>>

\* ConcurrencyManager.release_question_slot called by the user that holds q.
Release(k, q) ==
    /\ ~managers[k].lock
    /\ q \in Foreign(k)
    /\ managers' = [managers EXCEPT ![k] = release_question_slot(@, q)]
    /\ transitions' = {}
    /\ UNCHANGED <<disk, calls, returned, asking, loop_time, registry, streams, lookup>>
    /\ UNCHANGED <<storeVars, executor, sched, loops, stopper, now, locked, next_id,
                   deleted, attempts, cronq, sessionVars>>

\* ------------------------------------------------------- session ages
\* SessionManager.cleanup_old_sessions at current_time: the registry it
\* leaves. No code of the repository calls it.
cleanup_old_sessions(dict, current_time) ==
    [k \in {x \in DOMAIN dict : ~(current_time - dict[x].created_at > max_age_seconds)} |->
        dict[k]]

\* The clock of the event loop (asyncio.get_event_loop().time()) moves on by
\* max_age_seconds.
LoopTimePasses ==
    /\ loop_time < MaxAges * max_age_seconds
    /\ loop_time' = loop_time + max_age_seconds
    /\ transitions' = {}
    /\ UNCHANGED <<disk, calls, returned, managers, asking, registry, streams, lookup>>
    /\ UNCHANGED <<storeVars, executor, sched, loops, stopper, now, locked, next_id,
                   deleted, attempts, cronq, sessionVars>>

\* ------------------------------------------------ streams side by side
\* The requests to POST /api/task/stream. Request n gets client n; the
\* uuid4 made for it is n, and the question its agent asks has the id n.
StreamIds == 1..MaxStreams

NoStream == [pc |-> "idle", session_id |-> NoId, answer_event |-> "none"]

\* TaskRequest.resume: absent, or a session id
ResumeSamples == {None} \cup {Some(sid) : sid \in StreamIds}

\* run_task_stream: the session id the request runs under
SessionIdOf(n, resume) ==
    IF resume # None /\ resume[1] \in DOMAIN registry THEN resume[1] ELSE n

\* SessionManager.create_session
create_session(dict, session_id, cl) ==
    Put(dict, session_id, [client |-> cl, is_waiting |-> FALSE])

\* POST /api/task/stream with resume: the session id is chosen, the client
\* made and registered, and event_generator starts run_stream.
resume_task_stream(n, resume) ==
    /\ streams[n].pc = "idle"
    /\ registry' = create_session(registry, SessionIdOf(n, resume), n)
    /\ streams' = [streams EXCEPT ![n] = [pc |-> "receiving",
                                          session_id |-> SessionIdOf(n, resume),
                                          answer_event |-> "none"]]
    /\ UNCHANGED <<schedulerVars, cronq, sessionVars, disk, calls, returned, managers,
                   asking, loop_time, lookup>>

\* run_stream of request n yields its question and waits for the answer;
\* event_generator marks the session of its id waiting.
StreamAsks(n) ==
    /\ streams[n].pc = "receiving"
    /\ streams' = [streams EXCEPT ![n].pc = "waiting", ![n].answer_event = "unset"]
    /\ registry' = set_waiting(registry, streams[n].session_id, TRUE)
    /\ UNCHANGED <<schedulerVars, cronq, sessionVars, disk, calls, returned, managers,
                   asking, loop_time, lookup>>

\* the status POST /api/task/answer replies with when streams run side by side
stream_answer_status(sid, question_id) ==
    IF sid \notin DOMAIN registry THEN 404
    ELSE IF ~registry[sid].is_waiting THEN 400
    ELSE IF streams[registry[sid].client].pc # "waiting" THEN 400
    ELSE IF registry[sid].client # question_id THEN 400
    ELSE 200

\* POST /api/task/answer for the question of request question_id, sent
\* with the session id sid
stream_submit_answer(sid, question_id) ==
    /\ streams[question_id].pc = "waiting"
    /\ IF stream_answer_status(sid, question_id) = 200
       THEN /\ streams' = [streams EXCEPT ![registry[sid].client].answer_event = "set"]
            /\ registry' = set_waiting(registry, sid, FALSE)
       ELSE UNCHANGED <<registry, streams, lookup>>
    /\ UNCHANGED <<schedulerVars, cronq, sessionVars, disk, calls, returned, managers,
                   asking, loop_time, lookup>>

\* wait_for_answer of request n returns with the answer.
StreamAnswered(n) ==
    /\ streams[n].pc = "waiting"
    /\ streams[n].answer_event = "set"
    /\ streams' = [streams EXCEPT ![n].pc = "receiving", ![n].answer_event = "none"]
    /\ UNCHANGED <<schedulerVars, cronq, sessionVars, disk, calls, returned, managers,
                   asking, loop_time, registry, lookup>>

\* run_stream of request n is over: event_generator removes the session.
StreamEnds(n) ==
    /\ streams[n].pc = "receiving"
    /\ streams' = [streams EXCEPT ![n].pc = "done"]
    /\ registry' = remove_session(registry, streams[n].session_id)
    /\ UNCHANGED <<schedulerVars, cronq, sessionVars, disk, calls, returned, managers,
                   asking, loop_time, lookup>>

\* ---------------------------------------------------------- task detail
\* The contents of the four collections a task-detail request finds: one
\* queued and one running task, and histories of these lengths whose entries
\* have the ids First + 1, First + 2, ... from the newest on.
HistorySizes == {0, 1, detail_limit - 1, detail_limit, detail_limit + 1, MAX_HISTORY}

FirstIds == [queue |-> 5000, running |-> 6000, completed |-> 0, failed |-> 2000]

HistoryOf(first, n) == [i \in 1..n |-> [id |-> first + i]]

\* The ids asked for: the first and last entries of the pages of each
\* history, the queued and the running task, and an id that is nowhere.
DetailIds ==
    {FirstIds.queue + 1, FirstIds.running + 1, 9999}
        \cup {first + n : first \in {FirstIds.completed, FirstIds.failed},
                          n \in {1, detail_limit, detail_limit + 1, MAX_HISTORY}}

NoLookup == [completed |-> 0, failed |-> 0, task_id |-> NoId, status |-> 0]

\* HistoryStorage._get_paginated: the items of the page
_get_paginated(tasks, page, limit) ==
    SubSeq(tasks, (page - 1) * limit + 1, Min(Len(tasks), (page - 1) * limit + limit))

\* get_task_detail: its loop over the pages of the histories, from page on
RECURSIVE SearchHistory(_, _, _, _)
SearchHistory(completed_tasks, failed_tasks, task_id, page) ==
    IF page > detail_last_page THEN 404
    ELSE IF task_id \in Ids(_get_paginated(completed_tasks, page, detail_limit)) THEN 200
    ELSE IF task_id \in Ids(_get_paginated(failed_tasks, page, detail_limit)) THEN 200
    ELSE IF Len(_get_paginated(failed_tasks, page, detail_limit)) < detail_limit THEN 404
    ELSE SearchHistory(completed_tasks, failed_tasks, task_id, page + 1)

\* GET /api/tasks/{task_id}: the status get_task_detail replies with
get_task_detail(queue_tasks, running_tasks, completed_tasks, failed_tasks, task_id) ==
    IF task_id \in Ids(queue_tasks) THEN 200
    ELSE IF task_id \in Ids(running_tasks) THEN 200
    ELSE SearchHistory(completed_tasks, failed_tasks, task_id, 1)

\* A task-detail request arrives while the collections have these contents.
DetailAsked(c, f, task_id) ==
    /\ lookup = NoLookup
    /\ lookup' = [completed |-> c, failed |-> f, task_id |-> task_id, status |-> 0]
    /\ UNCHANGED <<schedulerVars, cronq, sessionVars, disk, calls, returned, managers,
                   asking, loop_time, registry, streams>>

\* get_task_detail returns.
DetailReturns ==
    /\ lookup # NoLookup
    /\ lookup.status = 0
    /\ lookup' = [lookup EXCEPT !.status =
                      get_task_detail(HistoryOf(FirstIds.queue, 1), HistoryOf(FirstIds.running, 1),
                                      HistoryOf(FirstIds.completed, lookup.completed),
                                      HistoryOf(FirstIds.failed, lookup.failed),
                                      lookup.task_id)]
    /\ UNCHANGED <<schedulerVars, cronq, sessionVars, disk, calls, returned, managers,
                   asking, loop_time, registry, streams>>

InitSide ==
    /\ disk = [object \in Collections |-> File(<<>>)]
    /\ calls = [c \in CallerIds |-> NoCall]
    /\ returned = None
    /\ managers = [k \in ClientIds |-> NewConcurrencyManager]
    /\ asking = [k \in ClientIds |-> [pc |-> "idle", question |-> NoId]]
    /\ loop_time = 0
    /\ registry = [s \in {} |-> [client |-> NoId, is_waiting |-> FALSE]]
    /\ streams = [n \in StreamIds |-> NoStream]
    /\ lookup = NoLookup

\* ------------------------------------------------------ the next-fire query
NoQuery == [cron |-> 0, from_time |-> 0, result |-> None, done |-> FALSE]

\* CronParser.calculate_next_run(cron, from_time) is called and returns.
CalculateNextRun ==
    /\ ~cronq.done
    /\ cronq' = [cronq EXCEPT !.result = calculate_next_run(CronSamples[cronq.cron],
                                                            cronq.from_time),
                              !.done = TRUE]
    /\ UNCHANGED <<schedulerVars, sessionVars, sideVars>>

\* ----------------------------------------------------------- specifications
InitScheduler ==
    /\ queue = <<>>
    /\ running = <<>>
    /\ completed = <<>>
    /\ failed = <<>>
    /\ scheduled = <<>>
    /\ executor = [current_task |-> NoId, is_executing |-> FALSE, errors |-> 0]
    /\ sched = [status |-> "stopped", task |-> NoId, stop_event |-> FALSE]
    /\ loops = [l \in LoopIds |-> NoLoop]
    /\ stopper = [pc |-> "idle", task |-> NoId, deadline |-> 0]
    /\ now = StartNow
    /\ locked = {}
    /\ next_id = 1
    /\ deleted = {}
    /\ transitions = {}
    /\ attempts = [i \in TaskIds |-> [runs |-> 0, retryable |-> TRUE]]

Init ==
    /\ InitScheduler
    /\ InitSession
    /\ InitSide
    /\ cronq = NoQuery

Next ==
    \/ \E l \in LoopIds : Tick(l)
    \/ \E l \in LoopIds, o \in OutcomeSamples : AgentReturns(l, o)
    \/ \E l \in LoopIds : AgentTimeout(l)
    \/ Start
    \/ Advance
    \/ \E r \in RequestSamples : create_task(r.prompt, r.timeout)
    \/ \E r \in DirectSamples : queue_add_task(r.prompt, r.timeout)
    \/ \E i \in TaskIds : delete_task(i)
    \/ clear_tasks

\* The life of a Task: the queue endpoints, one scheduler loop and the
\* executor, with every lock acquired at the first try.
Spec == Init /\ [][Next]_vars

NextLoops ==
    \/ \E l \in LoopIds : Tick(l)
    \/ \E l \in LoopIds, o \in OutcomeSamples : AgentReturns(l, o)
    \/ \E l \in LoopIds : AgentTimeout(l)
    \/ \E l \in LoopIds : LoopExit(l)
    \/ Start
    \/ Stop
    \/ StopFinish
    \/ StopTimeout
    \/ Advance
    \/ \E r \in RequestSamples : create_task(r.prompt, r.timeout)

\* The scheduler started and stopped while its loops run.
SpecLoops == Init /\ [][NextLoops]_vars

NextFault ==
    \/ \E l \in LoopIds : Tick(l)
    \/ \E l \in LoopIds, o \in OutcomeSamples : AgentReturns(l, o)
    \/ \E l \in LoopIds : AgentTimeout(l)
    \/ Start
    \/ Advance
    \/ \E r \in RequestSamples : create_task(r.prompt, r.timeout)
    \/ \E f \in LockFiles : LockHeld(f)
    \/ \E f \in LockFiles : LockReleased(f)

\* The engine when lock sentinels can be held by others for longer than the
\* acquisition retries (FileLock.__enter__ raises RuntimeError).
SpecFault == Init /\ [][NextFault]_vars

NextSchedule ==
    \/ \E l \in LoopIds : Tick(l)
    \/ \E l \in LoopIds, o \in OutcomeSamples : AgentReturns(l, o)
    \/ Start
    \/ Advance
    \/ \E k \in ScheduledCrons, e \in BOOLEAN : create_scheduled_task(k, e)

\* The engine fed by ScheduledTasks only.
SpecSchedule == Init /\ [][NextSchedule]_vars

InitCron ==
    /\ InitScheduler
    /\ InitSession
    /\ InitSide
    /\ \E k \in DOMAIN CronSamples, t \in 0..MaxFrom :
           cronq = [cron |-> k, from_time |-> t, result |-> None, done |-> FALSE]

NextCron == CalculateNextRun

\* calculate_next_run applied to each sample expression and start moment.
SpecCron == InitCron /\ [][NextCron]_vars

NextSession ==
    \/ \E sid \in SessionIds, k \in DOMAIN ScriptSamples : run_task_stream(sid, k)
    \/ Receive
    \/ Resume
    \/ WaitReturns
    \/ WaitTimeout
    \/ Disconnect
    \/ \E sid \in SessionIds, a \in AnswerSamples : submit_answer(sid, a)
    \/ Advance

\* One streamed run that puts questions to the user, the answers posted to
\* it and the browser that may close the stream.
SpecSession == Init /\ [][NextSession]_vars

NextStore ==
    \/ \E c \in CallerIds : StoreAdd(c)
    \/ StoreProcess
    \/ \E kind \in {"success", "failure", "retry"} : StoreFinish(kind)
    \/ \E c \in CallerIds : ReadStep(c)
    \/ \E c \in CallerIds : WriteStep(c)

\* The storage used by several processes at once, one read or write at a time.
SpecStore == Init /\ [][NextStore]_vars

NextCorrupt ==
    \/ \E c \in CallerIds : StoreAdd(c)
    \/ \E c \in CallerIds, method \in {"get_all", "count"} : StoreRead(c, method)
    \/ StoreProcess
    \/ \E c \in CallerIds : ReadStep(c)
    \/ \E c \in CallerIds : WriteStep(c)
    \/ \E object \in Collections : Damage(object)

\* The storage read while a collection file holds damaged content.
SpecCorrupt == Init /\ [][NextCorrupt]_vars

NextAsk ==
    \/ \E k \in ClientIds : Ask(k, 1)
    \/ \E k \in ClientIds : Answered(k)

\* Several streamed runs, each putting a question to its user.
SpecAsk == Init /\ [][NextAsk]_vars

NextSlots ==
    \/ \E q \in QuestionKeys : Ask(1, q)
    \/ Answered(1)
    \/ \E q \in QuestionKeys : Acquire(1, q)
    \/ \E q \in QuestionKeys : Release(1, q)

\* One ConcurrencyManager whose slots are taken and released through its
\* methods while a run_stream asks its question.
SpecSlots == Init /\ [][NextSlots]_vars

\* The ids given to ScheduledTasks.
ScheduledIds == 1..MaxScheduled

NextApi ==
    \/ \E l \in LoopIds : Tick(l)
    \/ \E l \in LoopIds, o \in OutcomeSamples : AgentReturns(l, o)
    \/ Start
    \/ Advance
    \/ \E k \in ScheduledCrons, e \in BOOLEAN : create_scheduled_task(k, e)
    \/ \E i \in ScheduledIds, r \in UpdateSamples : update_scheduled_task(i, r)
    \/ \E i \in ScheduledIds : toggle_scheduled_task(i)
    \/ \E i \in TaskIds : run_task_now(i)
    \/ \E i \in ScheduledIds : run_scheduled_now(i)

\* The engine with the endpoints of ScheduledTasks and the two run-now calls.
SpecApi == Init /\ [][NextApi]_vars

NextSweep ==
    \/ \E sid \in SessionIds, k \in DOMAIN ScriptSamples : run_task_stream(sid, k)
    \/ Receive
    \/ Resume
    \/ WaitTimeout
    \/ Disconnect
    \/ Advance
    \/ LoopTimePasses

\* Streamed runs and their sessions while the clock of the event loop runs
\* through several max_age_seconds.
SpecSweep == Init /\ [][NextSweep]_vars

NextExecute ==
    \/ \E l \in LoopIds : Tick(l)
    \/ \E l \in LoopIds, o \in OutcomeSamples : AgentReturns(l, o)
    \/ Start
    \/ \E r \in ExecuteSamples : queue_add_sample(r)

\* The executor given tasks that no endpoint validated.
SpecExecute == Init /\ [][NextExecute]_vars

\* The samples of ExecuteSamples with the longest timeout the executor accepts.
LongSamples == {r \in ExecuteSamples : r.timeout = MAX_TIMEOUT /\ r.allowed_tools = None}

NextBusy ==
    \/ \E l \in LoopIds : Tick(l)
    \/ \E l \in LoopIds, o \in OutcomeSamples : AgentReturns(l, o)
    \/ Start
    \/ Advance
    \/ \E k \in ScheduledCrons, e \in BOOLEAN : create_scheduled_task(k, e)
    \/ \E r \in LongSamples : queue_add_sample(r)

\* The engine with ScheduledTasks next to queued tasks that run for long.
SpecBusy == Init /\ [][NextBusy]_vars

NextResume ==
    \/ \E n \in StreamIds, resume \in ResumeSamples : resume_task_stream(n, resume)
    \/ \E n \in StreamIds : StreamAsks(n)
    \/ \E sid \in StreamIds, q \in StreamIds : stream_submit_answer(sid, q)
    \/ \E n \in StreamIds : StreamAnswered(n)
    \/ \E n \in StreamIds : StreamEnds(n)

\* Requests to POST /api/task/stream that resume each other's sessions.
SpecResume == Init /\ [][NextResume]_vars

NextDetail ==
    \/ \E c \in HistorySizes, f \in HistorySizes, task_id \in DetailIds :
           DetailAsked(c, f, task_id)
    \/ DetailReturns

\* Task-detail requests against histories of several lengths.
SpecDetail == Init /\ [][NextDetail]_vars

\* ------------------------------------------------------------- properties
\* The entry of a collection that holds the id.
Entry(tasks, id) == tasks[IndexOf(tasks, id)]

\* The collections that hold the id.
Holders(id) ==
    {name \in {"queue", "running", "completed", "failed"} :
         id \in Ids(CASE name = "queue" -> queue
                      [] name = "running" -> running
                      [] name = "completed" -> completed
                      [] OTHER -> failed)}

\* The ids of the Tasks created so far.
Created == 1..(next_id - 1)

\* C1: every task that was created and has not been deleted through the API
\* is in exactly one of the collections queue, running, completed history and
\* failed history.
ExactlyOneCollection ==
    \A id \in Created : id \notin deleted => Cardinality(Holders(id)) = 1

\* The status changes the state machine of the executor allows.
AllowedTransitions ==
    {<<"pending", "running">>, <<"pending", "cancelled">>,
     <<"running", "completed">>, <<"running", "failed">>, <<"running", "pending">>,
     <<"running", "cancelled">>,
     <<"failed", "pending">>, <<"failed", "cancelled">>}

\* C2: every status change made by the executor or the scheduler is one of the
\* allowed transitions, so none leaves COMPLETED or CANCELLED, whichever step
\* of execute fails.
OnlyAllowedTransitions == transitions \subseteq AllowedTransitions

\* The agent run of loop l ended with o in this step.
Ended(l, o) ==
    \/ o \in OutcomeSamples /\ AgentReturns(l, o)
    \/ o = TimeoutOutcome /\ AgentTimeout(l)

\* C3: when an execution fails, the task is re-queued exactly when the error
\* class is retryable and its retries is below MAX_RETRIES: then retries grows
\* by 1, started_at and finished_at are null, status is PENDING and the task is
\* in the queue and not in running; otherwise retries is unchanged, status is
\* FAILED, finished_at is set and the task is in failed history and in neither
\* queue nor running.
RetryOrFail ==
    [][\A l \in LoopIds, o \in OutcomeSamples \cup {TimeoutOutcome} :
           (o.kind # "success" /\ Ended(l, o)) =>
               IF /\ OutcomeClass(o) \in {"transient", "timeout", "resource"}
                  /\ loops[l].task.retries < MAX_RETRIES
               THEN /\ loops[l].task.id \in Ids(queue')
                    /\ loops[l].task.id \notin Ids(running') \cup Ids(failed')
                    /\ Entry(queue', loops[l].task.id).retries = loops[l].task.retries + 1
                    /\ Entry(queue', loops[l].task.id).started_at = None
                    /\ Entry(queue', loops[l].task.id).finished_at = None
                    /\ Entry(queue', loops[l].task.id).status = "pending"
               ELSE /\ loops[l].task.id \in Ids(failed')
                    /\ loops[l].task.id \notin Ids(queue') \cup Ids(running')
                    /\ Entry(failed', loops[l].task.id).retries = loops[l].task.retries
                    /\ Entry(failed', loops[l].task.id).status = "failed"
                    /\ Entry(failed', loops[l].task.id).finished_at # None]_vars

\* A failed run was re-queued and another was moved to failed history.
RetryOrFailWitness ==
    /\ \E i \in DOMAIN queue : queue[i].retries = 1 /\ queue[i].status = "pending"
    /\ \E i \in DOMAIN failed : failed[i].retries = 0 /\ attempts[failed[i].id].runs = 1

\* The Tasks of all four collections.
Stored == queue \o running \o completed \o failed

\* C4: every Task of every collection has retries <= MAX_RETRIES.
RetriesBounded == \A i \in DOMAIN Stored : Stored[i].retries <= MAX_RETRIES

\* A task has used up its retries.
RetriesBoundedWitness ==
    \E i \in DOMAIN failed : failed[i].retries = MAX_RETRIES /\ attempts[failed[i].id].runs = 3

\* C5: a task whose every execution fails with a retryable error is back in
\* the queue with retries = 1 after its first execution, back in the queue
\* with retries = 2 after its second, FAILED and in failed history after its
\* third, and no execution of it ends a fourth time.
ThreeExecutions ==
    [][\A l \in LoopIds, o \in OutcomeSamples \cup {TimeoutOutcome} :
           (Ended(l, o) /\ attempts'[loops[l].task.id].retryable) =>
               /\ attempts'[loops[l].task.id].runs \in 1..3
               /\ attempts'[loops[l].task.id].runs \in 1..2 =>
                      /\ loops[l].task.id \in Ids(queue')
                      /\ Entry(queue', loops[l].task.id).retries =
                             attempts'[loops[l].task.id].runs
               /\ attempts'[loops[l].task.id].runs = 3 =>
                      /\ loops[l].task.id \in Ids(failed')
                      /\ loops[l].task.id \notin Ids(queue')
                      /\ Entry(failed', loops[l].task.id).status = "failed"]_vars

\* A task has been executed three times, each time failing retryably.
ThreeExecutionsWitness ==
    \E id \in Created :
        /\ attempts[id].runs = 3
        /\ attempts[id].retryable
        /\ id \in Ids(failed)

\* C6: a task that the scheduler popped from the queue and that fails
\* validation is in failed history, with status FAILED, when the pass is over.
RejectedIsFailed ==
    [][\A l \in LoopIds :
           (/\ Tick(l)
            /\ ~executor.is_executing
            /\ queue # <<>>
            /\ ~_validate_task(Head(queue))) =>
               /\ Head(queue).id \in Ids(failed')
               /\ Entry(failed', Head(queue).id).status = "failed"]_vars

\* The coroutines that are inside an execution.
Executing == {l \in LoopIds : loops[l].pc = "executing"}

\* C7: one pass of the loop takes at most one task from the queue, and takes
\* one only when the executor is idle and no execution is in flight; at most
\* one task is being executed at any time.
SerialExecution ==
    [][/\ \A l \in LoopIds :
              Tick(l) =>
                  /\ Len(queue') >= Len(queue) - 1
                  /\ Len(queue') < Len(queue) =>
                         ~executor.is_executing /\ Executing = {}
       /\ Cardinality({l \in LoopIds : loops'[l].pc = "executing"}) <= 1]_vars

\* A pass found the executor busy and left the queue alone.
SerialExecutionWitness ==
    \E l, k \in LoopIds :
        /\ loops[l].pc = "executing"
        /\ loops[k].pc = "sleeping" /\ loops[k].wake = now + POLL_INTERVAL
        /\ loops[l].task.started_at = isoformat(now)
        /\ Len(queue) = 1

\* C8: while execute is running a task, is_executing() is true and
\* current_task() is that task; once no execute is running, is_executing() is
\* false and current_task() is null.
FlagsFollowExecution ==
    /\ \A l \in Executing :
           executor.is_executing /\ executor.current_task = loops[l].task.id
    /\ Executing = {} => ~executor.is_executing /\ executor.current_task = NoId

\* The Tasks of a ScheduledTask that are queued or running with an id from
\* first on.
Materialised(tasks, scheduled_id, first) ==
    {i \in DOMAIN tasks : tasks[i].scheduled_id = scheduled_id /\ tasks[i].id >= first}

\* C9: a pass that finds a ScheduledTask due queues exactly one new Task for
\* it, raises its run_count by 1 and saves a next_run later than the moment of
\* the trigger, so that the ScheduledTask is not due any more.
TriggerAdvances ==
    [][\A l \in LoopIds :
           Tick(l) =>
               \A i \in Due :
                   /\ Cardinality(Materialised(queue' \o running', scheduled[i].id,
                                               next_id)) = 1
                   /\ scheduled'[i].run_count = scheduled[i].run_count + 1
                   /\ scheduled'[i].next_run # None
                   /\ fromisoformat(scheduled'[i].next_run) > now
                   /\ ~is_due(scheduled'[i].next_run, now)]_vars

\* C10: for an expression that parses, calculate_next_run(c, t) is none or a
\* moment not earlier than t that matches every field of c.
NextRunNotEarlier ==
    (cronq.done /\ cronq.result # None) =>
        /\ cronq.result[1] >= cronq.from_time
        /\ _matches(parse(CronSamples[cronq.cron]), DateTime(cronq.result[1]))

\* C11: start() starts no loop and changes nothing of the scheduler whenever
\* its status is not STOPPED, and stop() changes nothing whenever the status
\* is STOPPED or STOPPING.
StartStopRefuse ==
    [][/\ (Start /\ sched.status # "stopped") => UNCHANGED <<sched, loops>>
       /\ (Stop /\ sched.status \in {"stopped", "stopping"}) =>
              UNCHANGED <<sched, loops, stopper>>]_vars

\* The loops whose execution is in flight when the wait of stop() runs out.
Overrun == {l \in Hit : loops[l].pc = "executing"}

\* C12: stop() sets the stop signal and waits 5 seconds at most for the loop;
\* when the wait runs out while an execution is in flight, the loop is
\* cancelled, the task of that execution stays in running with status RUNNING
\* and in neither queue nor history, and the status of the scheduler is
\* STOPPED.
StopOverrun ==
    [][/\ (Stop /\ stopper.pc = "idle" /\ stopper'.pc = "waiting") =>
              sched'.stop_event /\ stopper'.deadline = now + 5
       /\ StopTimeout =>
              /\ sched'.status = "stopped"
              /\ \A l \in Overrun :
                     /\ loops'[l].pc = "cancelled"
                     /\ loops[l].task.id \in Ids(running')
                     /\ Entry(running', loops[l].task.id).status = "running"
                     /\ loops[l].task.id \notin
                            Ids(queue') \cup Ids(completed') \cup Ids(failed')]_vars

\* The ids that running holds although no coroutine is executing them.
Orphans == Ids(running) \ {loops[l].task.id : l \in Executing}

\* A stop() ran out of its wait and left a task in running, RUNNING.
StopOverrunWitness ==
    /\ sched.status = "stopped"
    /\ \E l \in LoopIds : loops[l].pc = "cancelled"
    /\ \E i \in DOMAIN running : running[i].id \in Orphans /\ running[i].status = "running"

\* C13: a task that a shutdown overrun left in running is reaped on the next
\* start: the first pass of the loop that start() created takes it out of
\* running.
OrphanReaped ==
    [][\A l \in LoopIds :
           (Tick(l) /\ loops[l].pc = "ready") => Orphans \cap Ids(running') = {}]_vars

\* C14: an answer that names the pending question and is posted once the
\* question event is out, be it before run_stream has entered wait_for_answer
\* or after, sets the answer event and becomes the pending answer.
EarlyAnswerDelivered ==
    [][\A sid \in SessionIds, a \in AnswerSamples :
           (/\ submit_answer(sid, a)
            /\ stream.pc \in {"question", "waiting"}
            /\ stream.session_id = sid
            /\ client.pending_question_id = Some(a.question_id)
            /\ client.answer_event = "unset"
            /\ sanitize_user_input(a.answer) # <<>>)
           => client'.answer_event = "set" /\ client'.pending_answer = Some(a)]_vars

\* C15: there is at most one pending question id, and an answer posted to a
\* registered session is taken (it sets the answer event and becomes the
\* pending answer) exactly when its question_id is the pending one.
AcceptedIffPending ==
    [][\A sid \in SessionIds, a \in AnswerSamples :
           (submit_answer(sid, a) /\ sid \in DOMAIN sessions /\ client.answer_event # "set")
           => /\ Len(get_session_status(sid).pending_question_id) <= 1
              /\ (client'.answer_event = "set" /\ client'.pending_answer = Some(a))
                     <=> get_session_status(sid).pending_question_id = Some(a.question_id)]_vars

\* The answer is refused by the checks POST /api/task/answer makes first.
Refused(sid, a) ==
    \/ sid \notin DOMAIN sessions
    \/ ~sessions[sid].is_waiting
    \/ ~client.is_waiting_answer
    \/ client.pending_question_id \notin {None, Some(a.question_id)}

\* C16: an answer for a session that is not waiting, or with another
\* question_id than the pending one, gets an error reply and leaves the
\* session, the client and the stream as they were; with the stream in
\* wait_for_answer and the session waiting, the answer that names the
\* pending question is then taken.
RefusedAnswerChangesNothing ==
    [][\A sid \in SessionIds, a \in AnswerSamples :
           submit_answer(sid, a) =>
               /\ Refused(sid, a) =>
                      /\ replies'[Len(replies')].status \in {400, 404}
                      /\ UNCHANGED <<client, sessions, stream, sse, injected>>
               /\ (/\ ~Refused(sid, a)
                   /\ stream.pc = "waiting"
                   /\ client.answer_event = "unset"
                   /\ client.pending_question_id = Some(a.question_id)
                   /\ sanitize_user_input(a.answer) # <<>>) =>
                      /\ replies'[Len(replies')].status = 200
                      /\ client'.answer_event = "set"
                      /\ client'.pending_answer = Some(a)]_vars

\* A refused answer was followed by one that was taken, and the stream went on.
RefusedAnswerChangesNothingWitness ==
    /\ Len(replies) = 2
    /\ replies[1].status = 400
    /\ replies[1].answer.question_id # replies[2].answer.question_id
    /\ replies[2].taken
    /\ stream.pc \in {"yielded", "receiving", "question", "done"}
    /\ \E i \in DOMAIN injected : injected[i].answer = Some(replies[2].answer)

\* the tool results handed to the agent for the question
ResultsFor(q) == {i \in DOMAIN injected : injected[i].question_id = q}

\* C17: when wait_for_answer returns the answer that was taken, one tool
\* result carrying it is handed to the agent (one per question over the
\* run), the client and the session are no longer waiting and no question
\* id is pending, and the stream leaves the wait; a stream that ends has
\* sent the complete event last.
AnswerInjectedOnce ==
    [][/\ WaitReturns =>
              /\ client.pending_answer # None
              /\ injected' = Append(injected,
                                    [question_id |-> client.pending_question_id[1],
                                     content |-> "User has answered your questions",
                                     answer |-> client.pending_answer])
              /\ client.pending_answer[1].question_id = client.pending_question_id[1]
              /\ ~client'.is_waiting_answer
              /\ client'.pending_question_id = None
              /\ get_session_status(stream.session_id)' =
                     [status |-> 200, is_waiting |-> FALSE, pending_question_id |-> None]
              /\ stream'.pc \in {"yielded", "receiving"}
       /\ \A q \in {"q1", "q2"} : Cardinality(ResultsFor(q)') <= 1
       /\ stream'.pc = "done" => sse'[Len(sse')].type = "complete"]_vars

\* An answer was taken and handed to the agent, and the stream ran to its end.
AnswerInjectedOnceWitness ==
    /\ stream.pc = "done"
    /\ \E i \in DOMAIN injected : injected[i].answer # None
    /\ \E i \in DOMAIN replies : replies[i].taken
    /\ sse[Len(sse)].type = "complete"

\* C18: when the question's timeout passes without an answer, the stock
\* tool result is handed to the agent once, the session status reports
\* is_waiting false and no pending question id, and the stream leaves the wait.
TimeoutClearsWaiting ==
    [][WaitTimeout =>
           /\ injected' = Append(injected,
                                 [question_id |-> client.pending_question_id[1],
                                  content |-> "User did not answer the question.",
                                  answer |-> None])
           /\ \A q \in {client.pending_question_id[1]} : Cardinality(ResultsFor(q)') = 1
           /\ get_session_status(stream.session_id)' =
                  [status |-> 200, is_waiting |-> FALSE, pending_question_id |-> None]
           /\ stream'.pc \in {"yielded", "receiving"}]_vars

\* C19: when the event stream is closed, the session leaves the registry and
\* the client waits for no answer; from then on the status query finds no
\* session and an answer is replied to with 404.
DisconnectRemovesSession ==
    [][/\ Disconnect =>
              /\ stream.session_id \notin DOMAIN sessions'
              /\ ~client'.is_waiting_answer
       /\ stream.pc = "closed" =>
              /\ get_session_status(stream.session_id).status = 404
              /\ \A a \in AnswerSamples :
                     submit_answer(stream.session_id, a) =>
                         replies'[Len(replies')].status = 404]_vars

\* The events the agent's messages from the i-th on stand for, block by block.
RECURSIVE Produced(_, _, _)
Produced(script, i, j) ==
    IF i > Len(script) THEN <<>>
    ELSE IF script[i].kind = "result"
    THEN <<StreamMessage("complete", i, 0, "")>> \o Produced(script, i + 1, 1)
    ELSE IF j > Len(script[i].content) THEN Produced(script, i + 1, 1)
    ELSE <<StreamMessage(CASE script[i].content[j].b = "text" -> "text"
                           [] script[i].content[j].b = "tool" -> "tool_use"
                           [] script[i].content[j].b = "ask" -> "ask_user_question",
                         i, j, script[i].content[j].question_id)>>
         \o Produced(script, i, j + 1)

IsPrefix(s, t) == Len(s) <= Len(t) /\ SubSeq(t, 1, Len(s)) = s

\* C20: the events sent on the stream are, in order, the events the agent
\* produced so far, block by block, and all of them once the stream is over.
EventsInOrder ==
    stream.pc # "idle" =>
        /\ IsPrefix(sse, Produced(ScriptSamples[stream.script], 1, 1))
        /\ stream.pc = "done" => sse = Produced(ScriptSamples[stream.script], 1, 1)

\* C30: a task stored as failed after its retries are used up carries, in
\* the errors array of its result, a record for each of its failed runs: at
\* least three for a task that ran three times.
ErrorsOfAllAttempts ==
    \A i \in DOMAIN failed :
        (failed[i].retries = MAX_RETRIES /\ attempts[failed[i].id].runs = MAX_RETRIES + 1) =>
            /\ failed[i].result_errors # None
            /\ failed[i].result_errors[1] >= attempts[failed[i].id].runs

\* The collection files that hold an entry of task id.
OnDisk(id) ==
    {object \in Collections : \E i \in DOMAIN disk[object].tasks : disk[object].tasks[i].id = id}

\* C21: mutations of a collection are serialised and no update is lost: a task
\* handed to add, once no call carries it any more, is in a collection, so
\* after two concurrent add calls both tasks are stored.
NoUpdateLost ==
    \A id \in 1..(next_id - 1) :
        (\A c \in CallerIds : calls[c].task # id) => OnDisk(id) # {}

\* C22: no observer reading the collection files finds the same task id in
\* two collections at once.
NoTaskInTwoCollections ==
    \A id \in 1..(next_id - 1) : Cardinality(OnDisk(id)) <= 1

\* C23: reading a collection whose file cannot be parsed yields the empty
\* collection instead of raising: get_all and count return as for no entries,
\* pop returns none, and the scheduler's pass ends as on an empty queue.
CorruptReadsAsEmpty ==
    [][\A c \in CallerIds :
         (/\ ReadStep(c)
          /\ ~disk[Head(calls[c].plan)[1]].ok) =>
             /\ ~calls'[c].raised
             /\ Head(calls[c].plan)[2] \in {"get_all", "count"} =>
                    calls'[c].result = Returned(Head(calls[c].plan)[2], <<>>)
             /\ Head(calls[c].plan)[2] = "pop" => calls'[c].plan = <<>>]_vars

\* C24: after run_task_now on a queued task, or run_scheduled_now on a stored
\* ScheduledTask, the task concerned is at the head of the queue, ahead of
\* every task queued before the call.
RunNowAtHead ==
    [][/\ \A i \in TaskIds :
            (run_task_now(i) /\ i \in Ids(queue)) => queue'[1].id = i
       /\ \A i \in ScheduledIds :
            (run_scheduled_now(i) /\ scheduled_get(scheduled, i) # {}) =>
                queue'[1].id = next_id]_vars

\* C26: every stored ScheduledTask that is not enabled has no next_run.
DisabledHasNoNextRun ==
    \A i \in DOMAIN scheduled : ~scheduled[i].enabled => scheduled[i].next_run = None

\* A queue entry as an addition to the queue: a task re-queued for a retry
\* (its retries went up) counts as added anew.
Added(tasks) == [i \in DOMAIN tasks |-> <<tasks[i].id, tasks[i].retries>>]

\* The entries of the sequence keys that are in the set kept, in their order.
Kept(keys, kept) == SelectSeq(keys, LAMBDA k : k \in kept)

\* C25: the queue is first-in first-out. In every step the entries that stay
\* keep their order and the entries added come after them; an entry leaves
\* only from the head, unless a delete took it; the task handed to the
\* executor is the one that was at the head; and with an empty queue nothing
\* is handed over and the queue stays empty.
QueueIsFifo ==
    [][/\ \E n \in 0..Len(queue') :
            /\ SubSeq(Added(queue'), 1, n) = Kept(Added(queue), SeqToSet(Added(queue')))
            /\ \A j \in (n + 1)..Len(queue') : Added(queue')[j] \notin SeqToSet(Added(queue))
       /\ \A i \in DOMAIN queue :
            (Added(queue)[i] \notin SeqToSet(Added(queue')) /\ queue[i].id \notin deleted') => i = 1
       /\ \A l \in LoopIds :
            (loops[l].pc # "executing" /\ loops'[l].pc = "executing") =>
                /\ queue # <<>>
                /\ loops'[l].task.id = queue[1].id
                /\ Added(queue)[1] \notin SeqToSet(Added(queue'))
       /\ \A l \in LoopIds : (Tick(l) /\ queue = <<>>) => queue' = <<>>]_vars

\* C25 (witness): a task re-queued for a retry sits in the queue behind a task
\* that was created after it and has not run yet.
QueueIsFifoWitness ==
    \E i \in 2..Len(queue) :
        queue[i].retries > 0 /\ queue[i - 1].retries = 0 /\ queue[i].id < queue[i - 1].id

\* The clients whose question is emitted and awaits its answer.
Pending == {k \in ClientIds : asking[k].pc = "waiting"}

\* C27: across all live sessions together, the number of questions that are
\* pending at once never exceeds the cap of max_concurrent_questions.
PendingUnderCap == Cardinality(Pending) <= max_concurrent_questions

\* C28: a question that arrives while the cap is reached gets the busy text
\* and is queued, and when a slot is released while it is queued the release
\* returns and that question proceeds: it is emitted and awaits its answer.
QueuedQuestionProceeds ==
    [][\A k \in ClientIds :
         /\ \A q \in QuestionKeys :
                (Ask(k, q) /\ ~can_acquire(managers[k])) =>
                    /\ asking'[k].pc = "busy"
                    /\ managers'[k].question_queue = Append(managers[k].question_queue, q)
         /\ \A q \in QuestionKeys :
                (Release(k, q) /\ managers[k].question_queue # <<>>) =>
                    /\ ~managers'[k].lock
                    /\ Head(managers[k].question_queue) \in managers'[k].active_questions
                    /\ asking[k].question = Head(managers[k].question_queue) =>
                           asking'[k].pc = "waiting"]_vars

\* C29: sessions older than max_age are swept, so none stays in the registry
\* for good: once the stream of a session is closed, the registry holds no
\* session that a sweep made one max_age ago would already have removed.
OldSessionsSwept ==
    stream.pc = "closed" =>
        cleanup_old_sessions(sessions, loop_time - max_age_seconds) = sessions

\* The tasks that execute is to accept: a prompt that is not blank, a timeout
\* within the limits and only registered tools.
Acceptable(task) ==
    /\ strip(task.prompt) # <<>>
    /\ task.timeout >= MIN_TIMEOUT /\ task.timeout <= MAX_TIMEOUT
    /\ task.allowed_tools # None => task.allowed_tools[1] \subseteq VALID_TOOLS

\* C31: execute hands a task to the adapter exactly when its prompt is not
\* blank, its timeout is within 1000..3600000 and its allowed_tools are all
\* in the registry; a rejected task is not run and not queued again.
ExecuteRejectsExactly ==
    [][\A l \in LoopIds :
           (Tick(l) /\ ~executor.is_executing /\ queue # <<>>) =>
               IF Acceptable(Head(queue))
               THEN loops'[l].pc = "executing" /\ loops'[l].task.id = Head(queue).id
               ELSE /\ loops'[l].pc # "executing"
                    /\ Head(queue).id \notin Ids(queue') \cup Ids(running')]_vars

\* The day of the week of the moment t counted as cron counts it, Sunday = 0
\* to Saturday = 6 (the first day of EpochYear, 2024-01-01, is a Monday).
CronDay(t) == ((t \div 86400) + 1) % 7

\* C32: the day-of-week value 0 (as 7 and as the name sun) matches Sundays
\* only: every moment that calculate_next_run returns for an expression with
\* that day of the week, as 0 0 * * 0 of @weekly, falls on a Sunday.
WeeklyOnSunday ==
    (cronq.done /\ cronq.cron \in WeeklyCrons /\ cronq.result # None) =>
        CronDay(cronq.result[1]) = 0

\* Some moment of one of the 365 whole days after the day of t matches the
\* expression: such a moment is less than 366 days after t.
MatchWithinYear(expression, t) ==
    \E d \in 1..365 :
        \E dt \in {DateTime(((t \div 86400) + d) * 86400)} :
            /\ DateMatches(expression, dt)
            /\ \E h \in 0..23 : _field_matches(FieldOf(expression, "hour"), h, dt)
            /\ \E m \in 0..59 : _field_matches(FieldOf(expression, "minute"), m, dt)
            /\ expression.is_extended =>
                   \E sec \in 0..59 : _field_matches(FieldOf(expression, "second"), sec, dt)

\* C33: the next-fire search covers 366 days for expressions of five and of
\* six fields: when a parsed expression has a matching moment within 366
\* days after t, calculate_next_run returns a moment and validate accepts.
SearchCoversYear ==
    (/\ cronq.done
     /\ parse(CronSamples[cronq.cron]) # ValueError
     /\ MatchWithinYear(parse(CronSamples[cronq.cron]), cronq.from_time)) =>
        /\ cronq.result # None
        /\ validate(CronSamples[cronq.cron], cronq.from_time)

\* C34: an exception raised inside a pass of the scheduler loop never ends
\* the loop: after a pass that raised, the scheduler is still running and
\* the loop sleeps until the next poll.
LoopSurvivesException ==
    [][\A l \in LoopIds :
           (loops'[l] # loops[l] /\ loops'[l].logged /\ ~sched.stop_event) =>
               /\ sched'.status = "running"
               /\ sched'.task = l
               /\ loops'[l].pc = "sleeping"
               /\ loops'[l].wake = now + POLL_INTERVAL]_vars

\* C34 (witness): the last pass of the scheduler's loop raised (the lock of
\* the queue is held and a task waits in it), and the loop sleeps until the
\* next poll while the scheduler is running.
LoopSurvivesExceptionWitness ==
    \E l \in LoopIds :
        /\ loops[l].pc = "sleeping" /\ loops[l].logged
        /\ sched.status = "running" /\ sched.task = l
        /\ queue # <<>> /\ "queue" \in locked

\* The coroutines of _run_loop that were created and have not returned or
\* been cancelled.
Alive == {l \in LoopIds : loops[l].pc \notin {"unborn", "ended", "cancelled"}}

\* C35: under every interleaving of start() and stop() at most one scheduler
\* loop is alive, and none is while the status is STOPPED.
OneLoopAlive ==
    /\ Cardinality(Alive) <= 1
    /\ sched.status = "stopped" => Alive = {}

\* C36: POST /api/task/answer reports success and clears the session's
\* is_waiting flag only when the client's submit_answer took the answer; an
\* answer the client rejects gets an error and leaves the session waiting.
SuccessOnlyWhenAccepted ==
    [][\A sid \in SessionIds, a \in AnswerSamples :
           submit_answer(sid, a) =>
               /\ replies'[Len(replies')].success => client_accepts(client, a)
               /\ (sid \in DOMAIN sessions /\ ~client_accepts(client, a))
                      => sessions'[sid].is_waiting = sessions[sid].is_waiting]_vars

\* The places in the stream of the question event for block j of message i.
QuestionEvents(i, j) ==
    {k \in 1..Len(sse) : sse[k] = StreamMessage("ask_user_question", i, j,
                                                sse[k].question_id)}

\* C37: the ASK_USER_QUESTION event of a tool call is on the stream once the
\* wait for its answer has begun, and is never on the stream twice.
QuestionEventOnce ==
    /\ stream.pc = "waiting" => Cardinality(QuestionEvents(stream.msg, stream.block)) = 1
    /\ \A k \in 1..Len(sse) :
           sse[k].type = "ask_user_question" =>
               Cardinality(QuestionEvents(sse[k].msg, sse[k].block)) = 1

\* The moment from which the pass of a running scheduler finds the stored
\* ScheduledTask s due: its next_run, or the moment of the pass that
\* materialised it last when that pass left a next_run not after it.
DueSince(s) ==
    IF fromisoformat(s.next_run) >= fromisoformat(s.last_run)
    THEN fromisoformat(s.next_run)
    ELSE fromisoformat(s.last_run)

\* C38: the passes go on every POLL_INTERVAL while a task is executing: during
\* an execution that is within its timeout, no enabled ScheduledTask that was
\* materialised before has been due for longer than one poll interval.
DueMaterialisedWhileBusy ==
    \A l \in LoopIds, i \in DOMAIN scheduled :
        (/\ loops[l].pc = "executing"
         /\ now <= loops[l].deadline
         /\ sched.status = "running" /\ sched.task = l
         /\ scheduled[i].enabled
         /\ scheduled[i].last_run # None
         /\ is_due(scheduled[i].next_run, now))
        => now <= DueSince(scheduled[i]) + POLL_INTERVAL

\* C39: while a stream is live, the registry entry of its session id is
\* there and is its own (no request that resumes the session has replaced it,
\* no other stream's end has removed it), and while it waits for an answer,
\* an answer sent with its session id is accepted.
ResumeKeepsLiveSession ==
    \A m \in StreamIds :
        streams[m].pc \in {"receiving", "waiting"} =>
            /\ streams[m].session_id \in DOMAIN registry
            /\ registry[streams[m].session_id].client = m
            /\ (streams[m].pc = "waiting" /\ streams[m].answer_event = "unset")
                   => stream_answer_status(streams[m].session_id, m) = 200

\* The task-detail request under evaluation asks for an id that one of the
\* four collections holds.
Present ==
    \/ lookup.task_id \in {FirstIds.queue + 1, FirstIds.running + 1}
    \/ lookup.task_id \in FirstIds.completed + 1 .. FirstIds.completed + lookup.completed
    \/ lookup.task_id \in FirstIds.failed + 1 .. FirstIds.failed + lookup.failed

\* C40: the task-detail lookup finds every task that is in the queue, the
\* running collection or one of the two histories, whatever their lengths up
\* to MAX_HISTORY, and replies 404 only for ids that are in none of them.
DetailFindsEveryTask ==
    lookup.status # 0 => (lookup.status = 200 <=> Present)
====
